---- MODULE Spec2Model ----
(***************************************************************************)
(* Task orchestration engine of nippon-code: TaskPlanner (plan validation  *)
(* and execution order), TaskManager (task registry and status) and        *)
(* ExecutionFlow (the four-phase flow driving TaskExecutor), and the       *)
(* command executors (background processes, snapshots).                    *)
(*                                                                         *)
(* The specifications of the module:                                       *)
(*   SpecPlanner   - TaskPlanner.getExecutionOrder / validatePlan on every *)
(*                   bounded task list                                     *)
(*   SpecAnalyze   - TaskPlanner.analyzeRequest on every bounded response  *)
(*   SpecCritical  - analyzeRequest of the planner with plan metadata      *)
(*                   (findCriticalPath) on every bounded task list         *)
(*   SpecManager   - every interleaving of TaskManager's public operations *)
(*   SpecListener  - the same, heard by a 'task:statusChanged' listener    *)
(*   Spec          - one run of ExecutionFlow.execute with its control     *)
(*                   surface (approve, deny, pause, resume, abort)         *)
(*   SpecLive      - Spec, where the event loop always goes on             *)
(*   SpecSkip      - one run of ExecutionFlow.execute with skipTask        *)
(*   SpecExecutor  - one call of TaskExecutor.executeTask, step by step    *)
(*   SpecApproval  - the same on the executor an ExecutionFlow owns, with  *)
(*                   the flow's handler of 'approval:required'             *)
(*   SpecAsync     - AsyncCommandExecutor's registry of background         *)
(*                   processes under launch, exit, failure and kill        *)
(*   SpecServer    - the same with the children's output and the           *)
(*                   readiness check                                       *)
(*   SpecSnapshots - CommandExecutor.createSnapshots and rollback          *)
(***************************************************************************)
EXTENDS Integers, Sequences, FiniteSets, TLC

VARIABLES
  \* ---- TaskPlanner (SpecPlanner) ----
  p_tasks,      \* the Task[] argument of the call under study
  p_pc,         \* "idle" | "ordering" | "ordered" | "validated"
  o_visited,    \* getExecutionOrder: const visited = new Set<string>()
  o_result,     \* getExecutionOrder: const result: Task[] = []
  o_k,          \* getExecutionOrder: index of the outer for-loop (1-based)
  o_stack,      \* getExecutionOrder: call stack of visit(), frames [id, i]
  o_calls,      \* number of visit() invocations made so far
  v_plan,       \* validatePlan: the plan.tasks that was validated
  v_result,     \* validatePlan: the ValidationResult returned
  \* ---- TaskManager (SpecManager, Spec) ----
  m_plans,      \* plans: the ids of the registered plans
  m_tasks,      \* tasks: the ids of the registered tasks
  m_deps,       \* task.dependencies of every task object
  m_status,     \* task.status of every task object
  m_results,    \* results: task id -> stored result ("none" when absent)
  m_active,     \* activeTaskId (NoId when null)
  m_heard,      \* event name -> the payloads its listener received during the
                \* last call; only the events that have a listener are in the domain
  \* ---- ExecutionFlow (Spec) ----
  f_caller,     \* the FlowOptions argument of the constructor
  f_opts,       \* this.options, after the defaults are merged in
  f_phase,      \* state.phases: phase name -> status
  f_current,    \* state.currentPhase ("null" before the first phase)
  f_pc,         \* where execute() stands (the await it is suspended at)
  f_outcome,    \* the promise of execute(): "none" | "pending" | "resolved" | "rejected"
  f_analyzed,   \* runPlanningPhase: const plan, as analyzeRequest returned it
  f_plan,       \* state.plan.tasks (<<>> while state.plan is undefined)
  f_status,     \* task.status of the tasks of state.plan.tasks, by position
  f_approved,   \* state.approved
  f_paused,     \* state.paused
  f_aborted,    \* state.aborted
  f_listeners,  \* the once-listeners registered on the flow's emitter
  f_timer,      \* waitForApproval: delay of the armed timer (Unset when none)
  f_detailing,  \* runDetailingPhase: const detailedTasks
  f_detailed,   \* state.detailedTasks
  f_made,       \* runDetailingPhase: what decomposeTask and createDetailedTask
                \* came to for the task of the current iteration
  f_order,      \* runExecutionPhase: const executionOrder, as ids
  f_i,          \* index of the for-of loop of the running phase (1-based)
  f_results,    \* state.results
  \* ---- TaskExecutor (Spec) ----
  x_pc,         \* executeTask: "idle" | "loop" | "step"; in SpecExecutor the
                \* await it is suspended at: "approval" | "classify" | "shell"
                \* | "file" | "rollback"
  x_current,    \* currentTaskId (NoId when null)
  x_signal,     \* abortController: "null" | "live" | "aborted"
  x_step,       \* executeTask: index of the for-loop over task.steps (1-based)
  x_result,     \* the ExecutionResult status the last executeTask resolved with
  x_error,      \* the error thrown, which the result carries: "none" |
                \* "aborted" (Task execution aborted) | "safety" (Safety check
                \* failed) | "killed" (exit code null) | "step" (any other)
  x_calls,      \* task id -> number of executeTask calls made for it
  x_invocations, \* the tasks whose executeTask call has not returned yet
  \* ---- TaskExecutor, step by step (SpecExecutor) ----
  e_task,       \* the DetailedTask argument: number of steps and rollbackStrategy
  e_step,       \* the step of the current iteration, with the answer to its
                \* approval request, its classified risk and what became of it
  e_wait,       \* requestApproval: delay of the armed timer (Unset when none)
  e_listeners,  \* the once-listeners of 'approval:response' registered on the
                \* executor, each named by the step index of its request
  e_child,      \* the spawned child process: "none" | "running" | "killed"
  e_rolled,     \* executeRollback: outcome of every rollback step attempted
  e_obs,        \* history: skip warnings logged, and what the task was doing
                \* when abort() was called
  \* ---- AsyncCommandExecutor (SpecAsync) ----
  b_counter,    \* processIdCounter
  b_procs,      \* backgroundProcesses: n -> the BackgroundProcess 'bg-n', with
                \* the state of its child process
  b_timers,     \* the processes whose 2000 ms readiness timer is armed
  b_ready,      \* the payloads of the 'server:ready' events emitted so far
  b_last,       \* what killBackgroundProcess returned, when it ran last
  \* ---- CommandExecutor (SpecSnapshots) ----
  s_files,      \* the file system: path -> content (Absent when there is no file)
  s_snaps,      \* snapshots: path -> the Snapshot stored for it
  s_taken,      \* history: every snapshot created, by id, with what it captured
  s_pending,    \* createSnapshots: the resources the for-loop has not reached yet
  s_last,       \* the outcome of rollback, when it ran last
  \* ---- TaskPlanner.analyzeRequest (SpecAnalyze) ----
  a_pc,         \* analyzeRequest: "idle" | "chat" (awaiting the LLM)
  a_input,      \* the userInput argument
  a_response,   \* what the chat resolved with
  a_plan,       \* the TaskPlan returned, or the error thrown
  \* ---- the planner with plan metadata (SpecCritical) ----
  c_plan        \* what its analyzeRequest came to: the tasks and the critical
                \* path of the plan returned, or the error thrown

plannerVars == <<p_tasks, p_pc, o_visited, o_result, o_k, o_stack, o_calls,
                 v_plan, v_result>>

managerVars == <<m_plans, m_tasks, m_deps, m_status, m_results, m_active, m_heard>>

optVars == <<f_caller, f_opts>>
phaseVars == <<f_phase, f_current, f_pc, f_outcome>>
planVars == <<f_analyzed, f_plan, f_status>>
flagVars == <<f_approved, f_paused, f_aborted>>
waitVars == <<f_listeners, f_timer>>
detailVars == <<f_detailing, f_detailed, f_made>>
loopVars == <<f_order, f_i, f_results>>
stepVars == <<e_task, e_step, e_wait, e_listeners, e_child, e_rolled, e_obs>>
execVars == <<x_pc, x_current, x_signal, x_step, x_result, x_error, x_calls,
              x_invocations, stepVars>>

flowVars == <<optVars, phaseVars, planVars, flagVars, waitVars, detailVars,
              loopVars, execVars>>

asyncVars == <<b_counter, b_procs, b_timers, b_ready, b_last>>
snapVars == <<s_files, s_snaps, s_taken, s_pending, s_last>>
analyzeVars == <<a_pc, a_input, a_response, a_plan>>
criticalVars == <<c_plan>>
toolVars == <<asyncVars, snapVars, analyzeVars, criticalVars>>

vars == <<plannerVars, managerVars, flowVars, toolVars>>

nonPlannerVars == <<managerVars, flowVars, toolVars>>
nonManagerVars == <<plannerVars, flowVars, toolVars>>

(***************************************************************************)
(* Bounds                                                                  *)
(***************************************************************************)
MaxTasks == 3     \* tasks per plan
MaxEdges == 3     \* dependency entries per plan, summed over its tasks
MaxMTasks == 2    \* SpecManager: task objects handed to the TaskManager
MaxMEdges == 1    \* SpecManager: dependency entries, summed over the tasks
MaxFlowTasks == 2 \* Spec: tasks of the plan analyzeRequest returns
MaxFlowEdges == 1 \* Spec: dependency entries of that plan
MaxSteps == 1     \* Spec: steps of a detailed task
MaxExecSteps == 2      \* SpecExecutor: steps of the task
MaxRollbackSteps == 2  \* SpecExecutor: steps of the rollback strategy
MaxProcs == 2          \* SpecAsync: background processes launched
MaxServers == 1        \* SpecServer: background processes launched
MaxChunks == 1         \* SpecServer: chunks the child processes write
MaxPaths == 2          \* SpecSnapshots: paths of the file system
MaxSnapshots == 2      \* SpecSnapshots: snapshots created
MaxTokens == 3         \* SpecAnalyze: tokens of an LLM response

(***************************************************************************)
(* Tasks.  analyzeRequest numbers the tasks of a plan by their index       *)
(* (task-{planId}-{index}), so the task at position i has id i.  The       *)
(* dependency ids come from the LLM response unchecked: any id, also 0,    *)
(* which is never the id of a task, and ids above the length of the list.  *)
(***************************************************************************)
NoId == 0
DepIds == 0..MaxTasks

Range(s) == {s[i] : i \in DOMAIN s}

Task(id, deps) == [id |-> id, dependencies |-> deps, named |-> TRUE]

RECURSIVE SumLen(_, _)
SumLen(ts, i) == IF i > Len(ts) THEN 0 ELSE Len(ts[i].dependencies) + SumLen(ts, i + 1)
TotalEdges(ts) == SumLen(ts, 1)

(***************************************************************************)
(* new Map(tasks.map(t => [t.id, t])): the last task with an id wins.      *)
(***************************************************************************)
HasTask(tasks, id) == \E i \in DOMAIN tasks : tasks[i].id = id

taskMap(tasks, id) ==
  LET I == {i \in DOMAIN tasks : tasks[i].id = id}
  IN tasks[CHOOSE i \in I : \A j \in I : j <= i]

(***************************************************************************)
(* TaskPlanner.getExecutionOrder as a function: DFS post-order.            *)
(***************************************************************************)
RECURSIVE visit(_, _, _)
RECURSIVE visitDeps(_, _, _, _)

visitDeps(tasks, st, deps, i) ==
  IF i > Len(deps) THEN st
  ELSE visitDeps(tasks, visit(tasks, st, deps[i]), deps, i + 1)

visit(tasks, st, taskId) ==
  IF taskId \in st.visited THEN st
  ELSE LET st1 == [st EXCEPT !.visited = @ \cup {taskId}]
       IN IF ~HasTask(tasks, taskId) THEN st1
          ELSE LET task == taskMap(tasks, taskId)
                   st2 == visitDeps(tasks, st1, task.dependencies, 1)
               IN [st2 EXCEPT !.result = Append(@, task)]

RECURSIVE orderLoop(_, _, _)
orderLoop(tasks, st, k) ==
  IF k > Len(tasks) THEN st
  ELSE orderLoop(tasks, visit(tasks, st, tasks[k].id), k + 1)

getExecutionOrder(tasks) ==
  orderLoop(tasks, [visited |-> {}, result |-> <<>>], 1).result

(***************************************************************************)
(* TaskPlanner.detectCycles: DFS with a recursion stack; returns as soon   *)
(* as a back edge is found.                                                *)
(***************************************************************************)
RECURSIVE hasCycle(_, _, _)
RECURSIVE hasCycleDeps(_, _, _, _, _)

\* a bug: every dependency seen before counts as a back edge
OnRecursionStack_AnyVisited(st, dep) == TRUE

\* else if (recursionStack.has(dep)) return true;
OnRecursionStack(st, dep) == dep \in st.recursionStack

\* the for-loop over task.dependencies inside hasCycle
hasCycleDeps(tasks, st, taskId, deps, i) ==
  IF i > Len(deps)
  THEN [st EXCEPT !.recursionStack = @ \ {taskId}]
  ELSE LET dep == deps[i] IN
       IF dep \notin st.visited
       THEN LET sub == hasCycle(tasks, st, dep)
            IN IF sub.found THEN sub
               ELSE hasCycleDeps(tasks, sub, taskId, deps, i + 1)
       ELSE IF OnRecursionStack(st, dep)
            THEN [st EXCEPT !.found = TRUE]
            ELSE hasCycleDeps(tasks, st, taskId, deps, i + 1)

hasCycle(tasks, st, taskId) ==
  LET st1 == [st EXCEPT !.visited = @ \cup {taskId},
                        !.recursionStack = @ \cup {taskId}]
  IN IF HasTask(tasks, taskId)
     THEN hasCycleDeps(tasks, st1, taskId, taskMap(tasks, taskId).dependencies, 1)
     ELSE [st1 EXCEPT !.recursionStack = @ \ {taskId}]

RECURSIVE detectLoop(_, _, _)
detectLoop(tasks, st, k) ==
  IF k > Len(tasks) THEN FALSE
  ELSE IF tasks[k].id \notin st.visited
       THEN LET sub == hasCycle(tasks, st, tasks[k].id)
            IN IF sub.found THEN TRUE ELSE detectLoop(tasks, sub, k + 1)
       ELSE detectLoop(tasks, st, k + 1)

detectCycles(tasks) ==
  detectLoop(tasks, [visited |-> {}, recursionStack |-> {}, found |-> FALSE], 1)

(***************************************************************************)
(* TaskPlanner.validatePlan.  errors is kept as the set of messages; a     *)
(* message is a tuple of its text and the ids it names.                    *)
(***************************************************************************)
ErrNoTasks == <<"Plan has no tasks">>
ErrMissing(id) == <<"is missing required information", id>>
ErrInvalidDep(id, dep) == <<"has invalid dependency", id, dep>>
ErrCircular == <<"Plan contains circular dependencies">>

taskIds(tasks) == {tasks[i].id : i \in DOMAIN tasks}

\* a bug: the dependency ids are not looked up
IsInvalidDep_Unchecked(tasks, dep) == FALSE

\* if (!taskIds.has(dep))
IsInvalidDep(tasks, dep) == dep \notin taskIds(tasks)

validatePlan(tasks) ==
  LET errors ==
        (IF Len(tasks) = 0 THEN {ErrNoTasks} ELSE {})
        \cup {ErrMissing(tasks[i].id) : i \in {j \in DOMAIN tasks : ~tasks[j].named}}
        \cup UNION { {ErrInvalidDep(tasks[i].id, d) :
                        d \in {x \in Range(tasks[i].dependencies) : IsInvalidDep(tasks, x)}}
                     : i \in DOMAIN tasks }
        \cup (IF detectCycles(tasks) THEN {ErrCircular} ELSE {})
  IN [valid |-> errors = {}, errors |-> errors]

(***************************************************************************)
(* SpecPlanner: getExecutionOrder run step by step, validatePlan in one    *)
(* step, on every task list within the bounds.                             *)
(***************************************************************************)
NoResult == [valid |-> FALSE, errors |-> {}]

PlannerIdle ==
  /\ p_pc = "idle"
  /\ o_visited = {} /\ o_result = <<>> /\ o_k = 1 /\ o_stack = <<>> /\ o_calls = 0
  /\ v_plan = <<>> /\ v_result = NoResult

PlannerStart == p_tasks = <<>> /\ PlannerIdle

\* analyzeRequest, the callback of planData.tasks.map: the next task of the LLM
\* response gets its index as id and the dependencies the response names
DepLists(k) == UNION { [1..j -> DepIds] : j \in 0..k }

AnalyzeTask ==
  /\ p_pc = "idle" /\ Len(p_tasks) < MaxTasks
  /\ \E d \in DepLists(MaxEdges - TotalEdges(p_tasks)) :
       p_tasks' = Append(p_tasks, Task(Len(p_tasks) + 1, d))
  /\ UNCHANGED <<p_pc, o_visited, o_result, o_k, o_stack, o_calls, v_plan, v_result>>
  /\ UNCHANGED nonPlannerVars

\* a bug: visit has no visited-set guard
AlreadyVisited_NoGuard(taskId) == FALSE

\* if (visited.has(taskId)) return;
AlreadyVisited(taskId) == taskId \in o_visited

\* the entry of visit(taskId), up to the for-loop over the dependencies:
\* the visited set and the call stack after it
EnterVisited(taskId) ==
  IF AlreadyVisited(taskId) THEN o_visited ELSE o_visited \cup {taskId}

EnterStack(stack, taskId) ==
  IF AlreadyVisited(taskId) \/ ~HasTask(p_tasks, taskId) THEN stack
  ELSE Append(stack, [id |-> taskId, i |-> 1])

\* getExecutionOrder(tasks) is called
OrderCall ==
  /\ p_pc = "idle"
  /\ p_pc' = "ordering"
  /\ UNCHANGED <<p_tasks, o_visited, o_result, o_k, o_stack, o_calls, v_plan, v_result>>
  /\ UNCHANGED nonPlannerVars

\* for (const task of tasks) visit(task.id)
OrderLoop ==
  /\ p_pc = "ordering" /\ o_stack = <<>> /\ o_k <= Len(p_tasks)
  /\ o_calls' = o_calls + 1
  /\ o_visited' = EnterVisited(p_tasks[o_k].id)
  /\ o_stack' = EnterStack(o_stack, p_tasks[o_k].id)
  /\ o_k' = o_k + 1
  /\ UNCHANGED <<p_tasks, p_pc, o_result, v_plan, v_result>>
  /\ UNCHANGED nonPlannerVars

Top == o_stack[Len(o_stack)]
TopDeps == taskMap(p_tasks, Top.id).dependencies

\* a bug: the dependencies are stepped over without being visited
OrderDep_NoRecursion ==
  /\ p_pc = "ordering" /\ o_stack # <<>> /\ Top.i <= Len(TopDeps)
  /\ o_stack' = [o_stack EXCEPT ![Len(o_stack)].i = @ + 1]
  /\ UNCHANGED <<p_tasks, p_pc, o_visited, o_result, o_k, o_calls, v_plan, v_result>>
  /\ UNCHANGED nonPlannerVars

\* for (const dep of task.dependencies) visit(dep)
OrderDep ==
  /\ p_pc = "ordering" /\ o_stack # <<>> /\ Top.i <= Len(TopDeps)
  /\ o_calls' = o_calls + 1
  /\ o_visited' = EnterVisited(TopDeps[Top.i])
  /\ o_stack' = EnterStack([o_stack EXCEPT ![Len(o_stack)].i = @ + 1], TopDeps[Top.i])
  /\ UNCHANGED <<p_tasks, p_pc, o_result, o_k, v_plan, v_result>>
  /\ UNCHANGED nonPlannerVars

\* result.push(task), and visit returns
OrderPush ==
  /\ p_pc = "ordering" /\ o_stack # <<>> /\ Top.i > Len(TopDeps)
  /\ o_result' = Append(o_result, taskMap(p_tasks, Top.id))
  /\ o_stack' = SubSeq(o_stack, 1, Len(o_stack) - 1)
  /\ UNCHANGED <<p_tasks, p_pc, o_visited, o_k, o_calls, v_plan, v_result>>
  /\ UNCHANGED nonPlannerVars

\* return result
OrderReturn ==
  /\ p_pc = "ordering" /\ o_stack = <<>> /\ o_k > Len(p_tasks)
  /\ p_pc' = "ordered"
  /\ UNCHANGED <<p_tasks, o_visited, o_result, o_k, o_stack, o_calls, v_plan, v_result>>
  /\ UNCHANGED nonPlannerVars

\* the plan as validatePlan receives it: task u (if any) lacks its name
WithUnnamed(tasks, u) ==
  [i \in DOMAIN tasks |-> [tasks[i] EXCEPT !.named = (i # u)]]

ValidatePlanCall ==
  /\ p_pc = "idle"
  /\ \E u \in 0..Len(p_tasks) :
       /\ v_plan' = WithUnnamed(p_tasks, u)
       /\ v_result' = validatePlan(WithUnnamed(p_tasks, u))
  /\ p_pc' = "validated"
  /\ UNCHANGED <<p_tasks, o_visited, o_result, o_k, o_stack, o_calls>>
  /\ UNCHANGED nonPlannerVars


(***************************************************************************)
(* TaskManager.  A task object is named by its id; ids are unique across   *)
(* plans (they embed the plan's uuid).  The task objects of the universe   *)
(* are grouped into plans of up to two tasks, in id order.  plan.tasks and *)
(* the tasks map hold the same objects, so one status per id models both.  *)
(***************************************************************************)
Statuses == {"pending", "planning", "executing", "completed", "failed", "skipped"}
TerminalStatuses == {"completed", "failed", "skipped"}

\* the state of a TaskManager that owns the task objects ids, after
\* on(name, listener) for every name of names
ManagerListening(ids, names) ==
  /\ m_plans = {}
  /\ m_tasks = {}
  /\ m_deps = [t \in ids |-> <<>>]
  /\ m_status = [t \in ids |-> "pending"]
  /\ m_results = [t \in ids |-> "none"]
  /\ m_active = NoId
  /\ m_heard = [n \in names |-> <<>>]

\* the state of a TaskManager that owns the task objects ids and has no listener
ManagerStart(ids) == ManagerListening(ids, {})

\* what the listeners have received when a call returns that emitted nothing
\* they listen to
silence == [n \in DOMAIN m_heard |-> <<>>]

\* this.emit(name, payload), the only emit of a call
emitted(name, payload) ==
  [n \in DOMAIN m_heard |-> IF n = name THEN <<payload>> ELSE <<>>]

\* a bug: previousStatus is read after the status is assigned
statusChanged_PreviousAfter(taskId, status) ==
  [taskId |-> taskId, previousStatus |-> status, newStatus |-> status]

\* updateTaskStatus(taskId, status): the payload of 'task:statusChanged'
statusChanged(taskId, status) ==
  [taskId |-> taskId, previousStatus |-> m_status[taskId], newStatus |-> status]

\* updateTaskStatus(taskId, status): the status map after the call
statusAfterUpdate(taskId, status) ==
  IF taskId \notin m_tasks THEN m_status
  ELSE [m_status EXCEPT ![taskId] = status]

\* updateTaskStatus(taskId, status): activeTaskId after the call
activeAfterUpdate(taskId, status) ==
  IF taskId \notin m_tasks THEN m_active
  ELSE IF status = "executing" THEN taskId
  ELSE IF status \in TerminalStatuses /\ m_active = taskId THEN NoId
  ELSE m_active

\* a bug: a failure is propagated to the tasks that depend on the failed one
statusAfterResult_Propagates(taskId, resultStatus) ==
  IF taskId \notin m_tasks THEN m_status
  ELSE [t \in DOMAIN m_status |->
          IF t = taskId
          THEN IF resultStatus = "success" THEN "completed" ELSE "failed"
          ELSE IF resultStatus # "success"
                  /\ \E i \in DOMAIN m_deps[t] : m_deps[t][i] = taskId
               THEN "skipped"
               ELSE m_status[t]]

\* recordResult(result): the status map after the call
statusAfterResult(taskId, resultStatus) ==
  IF taskId \notin m_tasks THEN m_status
  ELSE [m_status EXCEPT ![taskId] =
          IF resultStatus = "success" THEN "completed" ELSE "failed"]

\* a bug: a failed dependency counts as done
dependencyCompleted_AnyTerminal(depId) ==
  depId \in m_tasks /\ m_status[depId] \in TerminalStatuses

\* depTask && (depTask.status === 'completed' || depTask.status === 'skipped')
dependencyCompleted(depId) ==
  depId \in m_tasks /\ m_status[depId] \in {"completed", "skipped"}

\* getNextPendingTask: the linear scan over plan.tasks from position k on
RECURSIVE pendingScan(_, _)
pendingScan(tasks, k) ==
  IF k > Len(tasks) THEN NoId
  ELSE IF m_status[tasks[k]] # "pending" THEN pendingScan(tasks, k + 1)
  ELSE IF Len(m_deps[tasks[k]]) = 0 THEN tasks[k]
  ELSE IF \A i \in DOMAIN m_deps[tasks[k]] : dependencyCompleted(m_deps[tasks[k]][i])
       THEN tasks[k]
       ELSE pendingScan(tasks, k + 1)

(***************************************************************************)
(* SpecManager: the TaskManager under every sequence of its operations.    *)
(***************************************************************************)
MTaskIds == 1..MaxMTasks
PlanOf(t) == (t + 1) \div 2
MPlanIds == {PlanOf(t) : t \in MTaskIds}

RECURSIVE AscendingSeq(_)
\* the ids of S in ascending order
AscendingSeq(S) ==
  IF S = {} THEN <<>>
  ELSE LET m == CHOOSE x \in S : \A y \in S : y <= x
       IN Append(AscendingSeq(S \ {m}), m)

\* plan.tasks of every plan, as ids
PlanTaskSeqs == [p \in MPlanIds |-> AscendingSeq({t \in MTaskIds : PlanOf(t) = p})]

\* plan.tasks of plan p, as ids
PlanTasks(p) == PlanTaskSeqs[p]

\* getPlanTasks(planId)
getPlanTasks(p) == IF p \in m_plans THEN PlanTasks(p) ELSE <<>>

\* getNextPendingTask(planId): the id of the task returned, NoId for null
getNextPendingTask(p) == pendingScan(getPlanTasks(p), 1)

\* getActiveTask(): the id of the task returned, NoId for null
getActiveTask == IF m_active # NoId /\ m_active \in m_tasks THEN m_active ELSE NoId

\* tasks.filter(t => t.status === status).length
countStatus(tasks, status) ==
  Cardinality({k \in DOMAIN tasks : m_status[tasks[k]] = status})

\* getPlanProgress(planId), without the percentage
getPlanProgress(p) ==
  [total |-> Len(getPlanTasks(p)),
   completed |-> countStatus(getPlanTasks(p), "completed"),
   failed |-> countStatus(getPlanTasks(p), "failed"),
   inProgress |-> countStatus(getPlanTasks(p), "executing")]

\* getActivePlans(), as the set of the ids of the plans returned
getActivePlans ==
  {p \in m_plans :
     \/ getPlanProgress(p).inProgress > 0
     \/ getPlanProgress(p).completed + getPlanProgress(p).failed < getPlanProgress(p).total}

RECURSIVE EdgeCount(_)
EdgeCount(S) ==
  IF S = {} THEN 0
  ELSE LET t == CHOOSE x \in S : TRUE IN Len(m_deps[t]) + EdgeCount(S \ {t})

\* dependency lists a caller may give task t: other tasks of its plan and the
\* id that names no task, each at most once
MDepLists(t, k) ==
  LET targets == {u \in MTaskIds : PlanOf(u) = PlanOf(t) /\ u # t} \cup {NoId}
  IN { AscendingSeq(D) : D \in {X \in SUBSET targets : Cardinality(X) <= k} }

\* the dependency lists of the tasks of a plan being registered
RECURSIVE PlanDeps(_, _)
PlanDeps(S, k) ==
  IF S = {} THEN { [t \in {} |-> <<>>] }
  ELSE LET t == CHOOSE x \in S : \A y \in S : y <= x
       IN UNION { { d @@ (t :> l) : d \in PlanDeps(S \ {t}, k - Len(l)) }
                  : l \in MDepLists(t, k) }

\* registerPlan(plan), for a plan not registered before
registerPlan(p) ==
  /\ p \notin m_plans
  /\ \E d \in PlanDeps(Range(PlanTasks(p)), MaxMEdges - EdgeCount(m_tasks)) :
       m_deps' = [t \in MTaskIds |-> IF t \in DOMAIN d THEN d[t] ELSE m_deps[t]]
  /\ m_plans' = m_plans \cup {p}
  /\ m_tasks' = m_tasks \cup Range(PlanTasks(p))
  /\ m_heard' = emitted("plan:registered", p)
  /\ UNCHANGED <<m_status, m_results, m_active>>
  /\ UNCHANGED nonManagerVars

\* updateTaskStatus(taskId, status)
updateTaskStatus(taskId, status) ==
  /\ m_status' = statusAfterUpdate(taskId, status)
  /\ m_active' = activeAfterUpdate(taskId, status)
  /\ m_heard' = IF taskId \in m_tasks
                THEN emitted("task:statusChanged", statusChanged(taskId, status))
                ELSE silence
  /\ UNCHANGED <<m_plans, m_tasks, m_deps, m_results>>
  /\ UNCHANGED nonManagerVars

\* recordResult(result)
recordResult(taskId, resultStatus) ==
  /\ m_results' = [m_results EXCEPT ![taskId] = resultStatus]
  /\ m_status' = statusAfterResult(taskId, resultStatus)
  /\ m_heard' = emitted("task:completed", [taskId |-> taskId, status |-> resultStatus])
  /\ UNCHANGED <<m_plans, m_tasks, m_deps, m_active>>
  /\ UNCHANGED nonManagerVars

\* a bug: skipTask stores its result through recordResult
skipTask_ViaRecordResult(taskId) ==
  /\ taskId \in m_tasks
  /\ m_status' = statusAfterResult(taskId, "success")
  /\ m_results' = [m_results EXCEPT ![taskId] = "skipped"]
  /\ m_heard' = emitted("task:completed", [taskId |-> taskId, status |-> "success"])
  /\ UNCHANGED <<m_plans, m_tasks, m_deps, m_active>>
  /\ UNCHANGED nonManagerVars

\* skipTask(taskId, reason): the stored result is a success with
\* output.skipped = true, written "skipped" here
skipTask(taskId) ==
  /\ taskId \in m_tasks
  /\ m_status' = [m_status EXCEPT ![taskId] = "skipped"]
  /\ m_results' = [m_results EXCEPT ![taskId] = "skipped"]
  /\ m_heard' = emitted("task:completed", [taskId |-> taskId, status |-> "success"])
  /\ UNCHANGED <<m_plans, m_tasks, m_deps, m_active>>
  /\ UNCHANGED nonManagerVars

\* skipTask on an id that is not registered returns at once
skipTaskUnknown(taskId) ==
  /\ taskId \notin m_tasks
  /\ m_heard' = silence
  /\ UNCHANGED <<m_plans, m_tasks, m_deps, m_status, m_results, m_active>>
  /\ UNCHANGED nonManagerVars

(***************************************************************************)
(* ExecutionFlow.  One flow object, execute() called once on it.  execute  *)
(* is an async function: an action runs it from one await to the next.     *)
(***************************************************************************)
Unset == -1                \* an option the caller left out
DefaultMaxRetries == 3
DefaultTimeout == 300000   \* milliseconds

PhaseNames == <<"planning", "detailing", "execution", "completion">>
PhaseSet == Range(PhaseNames)

\* the FlowOptions a caller may pass to the constructor: approval by hand or
\* automatic; tasks executed, simulated (dryRun) or never attempted
\* (maxRetries 0); a timeout of its own for the approval wait
CallerOptions ==
  { [autoApprove |-> a, dryRun |-> m = "dryRun",
     maxRetries |-> IF m = "noAttempt" THEN 0 ELSE Unset, timeout |-> Unset]
    : a \in BOOLEAN, m \in {"execute", "dryRun", "noAttempt"} }
  \cup { [autoApprove |-> FALSE, dryRun |-> FALSE, maxRetries |-> Unset,
          timeout |-> 1000] }

\* this.options = { autoApprove: false, ..., maxRetries: 3, timeout: 300000, ...options }
mergeOptions(o) ==
  [autoApprove |-> o.autoApprove,
   dryRun      |-> o.dryRun,
   maxRetries  |-> IF o.maxRetries = Unset THEN DefaultMaxRetries ELSE o.maxRetries,
   timeout     |-> IF o.timeout = Unset THEN DefaultTimeout ELSE o.timeout]

FlowTaskIds == 1..MaxFlowTasks

\* outside an iteration of the detailing loop
NothingMade == [subtasks |-> "none", reply |-> "none", resources |-> 0, risks |-> 0]

\* no executeTask call has been made: no task argument, no current step
\* a task without rollbackStrategy
NoRollback == [automatic |-> FALSE, steps |-> Unset]
NoTask == [steps |-> 0, rollback |-> NoRollback]
NoStep == [requiresApproval |-> FALSE, command |-> <<>>, safetyLevel |-> "safe",
           approved |-> "unasked", risk |-> "none", category |-> "none",
           targets |-> <<>>, fate |-> "none"]
NoHistory == [skips |-> 0, abortAt |-> "none"]

\* tasks.find(t => t.id === id), as an index: 0 when no task has the id
firstIndex(tasks, id) ==
  IF HasTask(tasks, id)
  THEN CHOOSE i \in DOMAIN tasks :
         tasks[i].id = id /\ \A j \in 1..(i - 1) : tasks[j].id # id
  ELSE 0

\* the state after new ExecutionFlow(o)
FlowStart(o) ==
  /\ f_caller = o /\ f_opts = mergeOptions(o)
  /\ f_phase = [p \in PhaseSet |-> "pending"]
  /\ f_current = "null" /\ f_pc = "idle" /\ f_outcome = "none"
  /\ f_analyzed = <<>> /\ f_plan = <<>> /\ f_status = <<>>
  /\ f_approved = FALSE /\ f_paused = FALSE /\ f_aborted = FALSE
  /\ f_listeners = {} /\ f_timer = Unset
  /\ f_detailing = <<>> /\ f_detailed = <<>> /\ f_made = NothingMade
  /\ f_order = <<>> /\ f_i = 1 /\ f_results = <<>>
  /\ x_pc = "idle" /\ x_current = NoId /\ x_signal = "null" /\ x_step = 1
  /\ x_result = "none" /\ x_error = "none" /\ x_invocations = {}
  /\ x_calls = [t \in FlowTaskIds |-> 0]
  /\ e_task = NoTask /\ e_step = NoStep /\ e_wait = Unset /\ e_child = "none"
  /\ e_listeners = {}
  /\ e_rolled = <<>> /\ e_obs = NoHistory

NoOptions ==
  [autoApprove |-> FALSE, dryRun |-> FALSE, maxRetries |-> Unset, timeout |-> Unset]

\* a bug: starting a phase resets the status of the others
updatePhase_ResetsOthers(phaseName, status) ==
  [p \in PhaseSet |->
     IF p = phaseName THEN status
     ELSE IF status = "in_progress" THEN "pending" ELSE f_phase[p]]

\* updatePhase(phaseName, status): state.phases after the call
updatePhase(phaseName, status) == [f_phase EXCEPT ![phaseName] = status]

\* catch (error) { updatePhase(name, 'failed', error); throw error } in the
\* phase, then handleFlowError and the re-throw in execute
PhaseFails(phaseName) ==
  /\ f_phase' = updatePhase(phaseName, "failed")
  /\ f_pc' = "rejected"
  /\ f_outcome' = "rejected"

\* the plans analyzeRequest can return: the tasks of the LLM response, ids by
\* index, dependency ids as the response names them, name possibly missing
FlowDepLists(k) == UNION { [1..j -> 0..MaxFlowTasks] : j \in 0..k }

RECURSIVE FlowTaskLists(_)
FlowTaskLists(n) ==
  IF n = 0 THEN { <<>> }
  ELSE UNION { { Append(ts, Task(n, d)) :
                   d \in FlowDepLists(MaxFlowEdges - TotalEdges(ts)) }
               : ts \in FlowTaskLists(n - 1) }

FlowPlans ==
  UNION { { WithUnnamed(ts, u) : u \in 0..Len(ts) }
          : ts \in UNION { FlowTaskLists(n) : n \in 0..MaxFlowTasks } }

\* execute(userRequest), up to the await of analyzeRequest
Execute ==
  /\ f_pc = "idle"
  /\ f_phase' = updatePhase("planning", "in_progress")
  /\ f_current' = "planning"
  /\ f_pc' = "analyzing"
  /\ f_outcome' = "pending"
  /\ UNCHANGED <<optVars, planVars, flagVars, waitVars, detailVars, loopVars, execVars>>
  /\ UNCHANGED <<plannerVars, toolVars, managerVars>>

\* analyzeRequest throws 'Failed to create task plan'
AnalyzeFails ==
  /\ f_pc = "analyzing"
  /\ PhaseFails("planning")
  /\ UNCHANGED <<f_current, optVars, planVars, flagVars, waitVars, detailVars,
                 loopVars, execVars>>
  /\ UNCHANGED <<plannerVars, toolVars, managerVars>>

\* a bug: the validation result is ignored
PlanAccepted_Unchecked(validation) == TRUE

\* if (!validation.valid) throw
PlanAccepted(validation) == validation.valid

\* runPlanningPhase from the return of analyzeRequest on: validation, then
\* auto-approval or the registration of the approval wait
PlanningAnalyzed ==
  /\ f_pc = "analyzing"
  /\ \E plan \in FlowPlans :
       /\ f_analyzed' = plan
       /\ IF ~PlanAccepted(validatePlan(plan))
          THEN /\ PhaseFails("planning")
               /\ UNCHANGED <<f_plan, f_status, f_approved, waitVars>>
          ELSE /\ f_plan' = plan
               /\ f_status' = [j \in DOMAIN plan |-> "pending"]
               /\ IF f_opts.autoApprove
                  THEN /\ f_approved' = TRUE
                       /\ f_phase' = updatePhase("planning", "completed")
                       /\ f_pc' = "planned"
                       /\ UNCHANGED <<f_outcome, waitVars>>
                  ELSE /\ f_listeners' = f_listeners \cup {"approval:granted", "approval:denied"}
                       /\ f_timer' = f_opts.timeout
                       /\ f_pc' = "approval"
                       /\ UNCHANGED <<f_phase, f_outcome, f_approved>>
  /\ UNCHANGED <<f_current, optVars, f_paused, f_aborted, detailVars, loopVars, execVars>>
  /\ UNCHANGED <<plannerVars, toolVars, managerVars>>

\* resolve() or reject() of the promise of waitForApproval, and what
\* runPlanningPhase does when it settles; nothing once it has settled
SettleApproval(how) ==
  IF f_pc # "approval" THEN UNCHANGED phaseVars
  ELSE IF how = "resolve"
       THEN /\ f_phase' = updatePhase("planning", "completed")
            /\ f_pc' = "planned"
            /\ UNCHANGED <<f_current, f_outcome>>
       ELSE /\ PhaseFails("planning")
            /\ UNCHANGED f_current

\* approve(): emit('approval:granted')
Approve ==
  /\ IF "approval:granted" \in f_listeners
     THEN /\ f_listeners' = f_listeners \ {"approval:granted"}
          /\ f_timer' = Unset
          /\ f_approved' = TRUE
          /\ SettleApproval("resolve")
     ELSE UNCHANGED <<f_listeners, f_timer, f_approved, phaseVars>>
  /\ UNCHANGED <<optVars, planVars, f_paused, f_aborted, detailVars, loopVars, execVars>>
  /\ UNCHANGED <<plannerVars, toolVars, managerVars>>

\* a bug: the denial listener resolves the wait
onDenied_Resolves == "resolve"

\* this.once('approval:denied', ...): reject(new Error('Plan rejected by user'))
onDenied == "reject"

\* deny(): emit('approval:denied')
Deny ==
  /\ IF "approval:denied" \in f_listeners
     THEN /\ f_listeners' = f_listeners \ {"approval:denied"}
          /\ f_timer' = Unset
          /\ SettleApproval(onDenied)
     ELSE UNCHANGED <<f_listeners, f_timer, phaseVars>>
  /\ UNCHANGED <<optVars, planVars, flagVars, detailVars, loopVars, execVars>>
  /\ UNCHANGED <<plannerVars, toolVars, managerVars>>

\* the timer of waitForApproval fires: reject(new Error('Approval timeout'))
ApprovalTimeout ==
  /\ f_timer # Unset
  /\ f_timer' = Unset
  /\ SettleApproval("reject")
  /\ UNCHANGED <<f_listeners, optVars, planVars, flagVars, detailVars, loopVars, execVars>>
  /\ UNCHANGED <<plannerVars, toolVars, managerVars>>

\* runDetailingPhase, up to the for-of loop over state.plan.tasks (state.plan
\* is set whenever runPlanningPhase has returned)
RunDetailingPhase ==
  /\ f_pc = "planned"
  /\ f_phase' = updatePhase("detailing", "in_progress")
  /\ f_current' = "detailing"
  /\ f_pc' = "detail_head"
  /\ f_detailing' = <<>>
  /\ f_made' = NothingMade
  /\ f_i' = 1
  /\ UNCHANGED <<f_outcome, optVars, planVars, flagVars, waitVars, f_detailed,
                 f_order, f_results, execVars>>
  /\ UNCHANGED <<plannerVars, toolVars, managerVars>>

\* createDetailedTask: { ...task, steps } with the steps of the LLM response,
\* or without steps when the response fails
DetailedTask(task, status, n) ==
  [id |-> task.id, dependencies |-> task.dependencies, status |-> status, steps |-> n]

\* taskManager.addTask(task) for every detailed task: the tasks are registered
\* with the status they carry
addTask(dts) ==
  LET ids == {dts[j].id : j \in DOMAIN dts}
  IN /\ m_tasks' = m_tasks \cup ids
     /\ m_deps' = [t \in DOMAIN m_deps |->
                     IF t \in ids THEN taskMap(dts, t).dependencies ELSE m_deps[t]]
     /\ m_status' = [t \in DOMAIN m_status |->
                       IF t \in ids THEN taskMap(dts, t).status ELSE m_status[t]]
     /\ UNCHANGED <<m_plans, m_results, m_active, m_heard>>

\* the head of the for-of loop of runDetailingPhase and, past the last task,
\* the rest of the phase
DetailLoop ==
  /\ f_pc = "detail_head"
  /\ IF f_i > Len(f_plan)
     THEN /\ f_detailed' = f_detailing
          /\ addTask(f_detailing)
          /\ f_phase' = updatePhase("detailing", "completed")
          /\ f_pc' = "detailed"
          /\ UNCHANGED f_outcome
     ELSE IF f_aborted
     THEN /\ PhaseFails("detailing")
          /\ UNCHANGED <<f_detailed, managerVars>>
     ELSE /\ f_pc' = "detail_task"
          /\ UNCHANGED <<f_phase, f_outcome, f_detailed, managerVars>>
  /\ f_made' = NothingMade
  /\ UNCHANGED <<f_current, optVars, planVars, flagVars, waitVars, f_detailing,
                 loopVars, execVars>>
  /\ UNCHANGED <<plannerVars, toolVars>>

\* const subtasks = await this.planner.decomposeTask(task): the subtasks, or
\* [] when the LLM call or the parsing of its response failed
DecomposeTask ==
  /\ f_pc = "detail_task"
  /\ \E r \in {"failed", "some"} : f_made' = [f_made EXCEPT !.subtasks = r]
  /\ f_pc' = "detail_create"
  /\ UNCHANGED <<f_phase, f_current, f_outcome, optVars, planVars, flagVars,
                 waitVars, f_detailing, f_detailed, loopVars, execVars>>
  /\ UNCHANGED <<plannerVars, toolVars, managerVars>>

\* what the LLM call of createDetailedTask comes to: it throws, its response
\* holds no JSON with the fields asked for, or it holds them
GenerationReplies == {"error", "bare", "full"}

\* a bug: the catch of createDetailedTask keeps what a full reply would give
detailFor_KeepsOnError(reply) ==
  IF reply = "bare"
  THEN [steps |-> 0, resources |-> 0, risks |-> 0]
  ELSE [steps |-> MaxSteps, resources |-> 1, risks |-> 1]

\* createDetailedTask: the number of steps, resources and risks of the
\* DetailedTask it returns
detailFor(reply) ==
  IF reply = "full"
  THEN [steps |-> MaxSteps, resources |-> 1, risks |-> 1]
  ELSE [steps |-> 0, resources |-> 0, risks |-> 0]

\* createDetailedTask returns (the subtasks are not used); detailedTasks.push
DetailTask ==
  /\ f_pc = "detail_create"
  /\ \E reply \in GenerationReplies :
       /\ f_detailing' =
            Append(f_detailing,
                   DetailedTask(f_plan[f_i], f_status[f_i], detailFor(reply).steps))
       /\ f_made' = [f_made EXCEPT !.reply = reply,
                                   !.resources = detailFor(reply).resources,
                                   !.risks = detailFor(reply).risks]
  /\ f_i' = f_i + 1
  /\ f_pc' = "detail_head"
  /\ UNCHANGED <<f_phase, f_current, f_outcome, optVars, planVars, flagVars,
                 waitVars, f_detailed, f_order, f_results, execVars>>
  /\ UNCHANGED <<plannerVars, toolVars, managerVars>>

\* runExecutionPhase, up to the for-of loop over the execution order
RunExecutionPhase ==
  /\ f_pc = "detailed"
  /\ f_phase' = updatePhase("execution", "in_progress")
  /\ f_current' = "execution"
  /\ f_order' = LET order == getExecutionOrder(f_plan)
               IN [j \in DOMAIN order |-> order[j].id]
  /\ f_i' = 1
  /\ f_pc' = "exec_head"
  /\ UNCHANGED <<f_outcome, optVars, planVars, flagVars, waitVars, detailVars,
                 f_results, execVars>>
  /\ UNCHANGED <<plannerVars, toolVars, managerVars>>

\* TaskExecutor.executeTask(task), up to the for-loop over task.steps
executeTaskStart(id) ==
  /\ x_current' = id
  /\ x_signal' = "live"
  /\ x_pc' = "loop"
  /\ x_step' = 1
  /\ x_result' = "none"
  /\ x_error' = "none"
  /\ x_calls' = [t \in DOMAIN x_calls |-> IF t = id THEN x_calls[t] + 1 ELSE x_calls[t]]
  /\ x_invocations' = x_invocations \cup {id}
  /\ m_status' = statusAfterUpdate(id, "executing")
  /\ m_active' = activeAfterUpdate(id, "executing")

\* the body of the for-of loop of runExecutionPhase from the lookup of the
\* detailed task on, up to the await inside the retry loop
Dispatch(k) ==
  IF ~\E j \in DOMAIN f_detailed : f_detailed[j].id = f_order[k]
  THEN /\ PhaseFails("execution")
       /\ UNCHANGED <<f_i, execVars, m_status, m_active>>
  ELSE IF ~(0 < f_opts.maxRetries)
  THEN \* while (retries < maxRetries) is not entered: result stays null
       /\ f_pc' = "exec_head"
       /\ f_i' = k + 1
       /\ UNCHANGED <<f_phase, f_outcome, execVars, m_status, m_active>>
  ELSE IF f_opts.dryRun
  THEN /\ f_pc' = "simulating"
       /\ f_i' = k
       /\ UNCHANGED <<f_phase, f_outcome, execVars, m_status, m_active>>
  ELSE /\ f_pc' = "in_task"
       /\ f_i' = k
       /\ executeTaskStart(f_order[k])
       /\ UNCHANGED <<f_phase, f_outcome, stepVars>>

\* the head of the for-of loop of runExecutionPhase and, past the last task,
\* the rest of the phase
ExecutionLoop ==
  /\ f_pc = "exec_head"
  /\ IF f_i > Len(f_order)
     THEN /\ f_phase' = updatePhase("execution", "completed")
          /\ f_pc' = "executed"
          /\ UNCHANGED <<f_outcome, f_i, f_listeners, execVars, m_status, m_active>>
     ELSE IF f_aborted
     THEN /\ PhaseFails("execution")
          /\ UNCHANGED <<f_i, f_listeners, execVars, m_status, m_active>>
     ELSE IF f_paused
     THEN \* await this.waitForResume()
          /\ f_pc' = "paused"
          /\ f_listeners' = f_listeners \cup {"flow:resumed"}
          /\ UNCHANGED <<f_phase, f_outcome, f_i, execVars, m_status, m_active>>
     ELSE /\ Dispatch(f_i)
          /\ UNCHANGED f_listeners
  /\ UNCHANGED <<f_current, optVars, planVars, flagVars, f_timer, detailVars,
                 f_order, f_results>>
  /\ UNCHANGED <<plannerVars, toolVars, m_plans, m_tasks, m_deps, m_heard, m_results>>

\* a bug: the catch of executeTask throws the error again instead of
\* returning a failure result
executeTaskReturn_Rethrows(status, error) ==
  /\ IF status = "failure"
     THEN /\ x_result' = "rejected"
          /\ UNCHANGED <<m_results, m_status>>
     ELSE /\ x_result' = status
          /\ m_results' = [t \in DOMAIN m_results |->
                             IF t = x_current THEN status ELSE m_results[t]]
          /\ m_status' = statusAfterResult(x_current, status)
  /\ x_error' = error
  /\ x_pc' = "idle"
  /\ x_current' = NoId
  /\ x_signal' = "null"
  /\ x_invocations' = x_invocations \ {x_current}
  /\ UNCHANGED <<x_step, x_calls>>

\* executeTask returns its result, from the try or from the catch: recordResult,
\* then the finally block
executeTaskReturn(status, error) ==
  /\ m_results' = [t \in DOMAIN m_results |->
                     IF t = x_current THEN status ELSE m_results[t]]
  /\ m_status' = statusAfterResult(x_current, status)
  /\ x_result' = status
  /\ x_error' = error
  /\ x_pc' = "idle"
  /\ x_current' = NoId
  /\ x_signal' = "null"
  /\ x_invocations' = x_invocations \ {x_current}
  /\ UNCHANGED <<x_step, x_calls>>

\* the head of the for-loop over task.steps
StepLoop ==
  /\ x_pc = "loop"
  /\ IF x_step > taskMap(f_detailed, x_current).steps
     THEN executeTaskReturn("success", "none")
     ELSE IF x_signal # "live"
     THEN \* throw new Error('Task execution aborted')
          executeTaskReturn("failure", "aborted")
     ELSE /\ x_pc' = "step"
          /\ UNCHANGED <<x_current, x_signal, x_step, x_result, x_error, x_calls, x_invocations,
                         m_status, m_results>>
  /\ UNCHANGED <<optVars, phaseVars, planVars, flagVars, waitVars, detailVars, loopVars,
                 stepVars>>
  /\ UNCHANGED <<plannerVars, toolVars, m_plans, m_tasks, m_deps, m_heard, m_active>>

\* a step ends: it ran or was skipped for lack of approval (the loop goes on),
\* or it threw, on the safety check or while it ran (executeTask catches the
\* error and returns a failure)
StepDone ==
  /\ x_pc = "step"
  /\ \/ /\ x_step' = x_step + 1
        /\ x_pc' = "loop"
        /\ UNCHANGED <<x_current, x_signal, x_result, x_error, x_calls, x_invocations,
                       m_status, m_results>>
     \/ \E error \in {"safety", "step"} : executeTaskReturn("failure", error)
  /\ UNCHANGED <<optVars, phaseVars, planVars, flagVars, waitVars, detailVars, loopVars,
                 stepVars>>
  /\ UNCHANGED <<plannerVars, toolVars, m_plans, m_tasks, m_deps, m_heard, m_active>>

\* a bug: executeTask is not awaited
ExecuteTaskReturned_NotAwaited == TRUE

\* result = await this.executor.executeTask(detailedTask)
ExecuteTaskReturned == x_result # "none"

\* the await of executeTask ends: break, state.results.push(result)
TaskReturned ==
  /\ f_pc = "in_task"
  /\ ExecuteTaskReturned
  /\ f_results' = Append(f_results, [taskId |-> f_order[f_i], status |-> x_result, error |-> x_error])
  /\ f_i' = f_i + 1
  /\ f_pc' = "exec_head"
  /\ UNCHANGED <<f_phase, f_current, f_outcome, optVars, planVars, flagVars,
                 waitVars, detailVars, f_order, execVars>>
  /\ UNCHANGED <<plannerVars, toolVars, managerVars>>

\* the await of simulateExecution ends: a success result, nothing executed
SimulationDone ==
  /\ f_pc = "simulating"
  /\ f_results' = Append(f_results, [taskId |-> f_order[f_i], status |-> "success", error |-> "none"])
  /\ f_i' = f_i + 1
  /\ f_pc' = "exec_head"
  /\ UNCHANGED <<f_phase, f_current, f_outcome, optVars, planVars, flagVars,
                 waitVars, detailVars, f_order, execVars>>
  /\ UNCHANGED <<plannerVars, toolVars, managerVars>>

\* runCompletionPhase, up to the emit of phase:started
RunCompletionPhase ==
  /\ f_pc = "executed"
  /\ f_phase' = updatePhase("completion", "in_progress")
  /\ f_current' = "completion"
  /\ f_pc' = "completing"
  /\ UNCHANGED <<f_outcome, optVars, planVars, flagVars, waitVars, detailVars,
                 loopVars, execVars>>
  /\ UNCHANGED <<plannerVars, toolVars, managerVars>>

\* the rest of runCompletionPhase: the report, and execute() resolves
CompleteFlow ==
  /\ f_pc = "completing"
  /\ f_phase' = updatePhase("completion", "completed")
  /\ f_pc' = "done"
  /\ f_outcome' = "resolved"
  /\ UNCHANGED <<f_current, optVars, planVars, flagVars, waitVars, detailVars,
                 loopVars, execVars>>
  /\ UNCHANGED <<plannerVars, toolVars, managerVars>>

\* pause()
Pause ==
  /\ f_paused' = TRUE
  /\ UNCHANGED <<f_approved, f_aborted, optVars, phaseVars, planVars, waitVars,
                 detailVars, loopVars, execVars>>
  /\ UNCHANGED <<plannerVars, toolVars, managerVars>>

\* resume(): the flag, then emit('flow:resumed'), which resolves the promise
\* of waitForResume; runExecutionPhase goes on in a later microtask
Resume ==
  /\ f_paused' = FALSE
  /\ IF "flow:resumed" \in f_listeners
     THEN /\ f_listeners' = f_listeners \ {"flow:resumed"}
          /\ f_pc' = IF f_pc = "paused" THEN "resumed" ELSE f_pc
     ELSE UNCHANGED <<f_listeners, f_pc>>
  /\ UNCHANGED <<f_phase, f_current, f_outcome, f_approved, f_aborted, optVars,
                 planVars, f_timer, detailVars, loopVars, execVars>>
  /\ UNCHANGED <<plannerVars, toolVars, managerVars>>

\* await this.waitForResume() returns: the rest of the loop body, up to the
\* await inside the retry loop
WaitForResumeReturned ==
  /\ f_pc = "resumed"
  /\ Dispatch(f_i)
  /\ UNCHANGED <<f_current, flagVars, waitVars, optVars, planVars,
                 detailVars, f_order, f_results>>
  /\ UNCHANGED <<plannerVars, toolVars, m_plans, m_tasks, m_deps, m_heard, m_results>>

\* abort(): the flag, then executor.abort()
Abort ==
  /\ f_aborted' = TRUE
  /\ x_signal' = IF x_signal = "live" THEN "aborted" ELSE x_signal
  /\ UNCHANGED <<f_approved, f_paused, optVars, phaseVars, planVars, waitVars,
                 detailVars, loopVars, x_pc, x_current, x_step, x_result, x_error,
                 x_calls, x_invocations, stepVars>>
  /\ UNCHANGED <<plannerVars, toolVars, managerVars>>

\* skipTask(taskId): the status of the plan's task with that id, if there is
\* a plan and it has one
SkipTask(taskId) ==
  /\ f_status' = [j \in DOMAIN f_status |->
                    IF j = firstIndex(f_plan, taskId) THEN "skipped" ELSE f_status[j]]
  /\ UNCHANGED <<f_analyzed, f_plan, optVars, phaseVars, flagVars, waitVars,
                 detailVars, loopVars, execVars>>
  /\ UNCHANGED <<plannerVars, toolVars, managerVars>>

(***************************************************************************)
(* TaskExecutor, step by step.  A command string is the sequence of its    *)
(* characters.                                                             *)
(***************************************************************************)
IsSpace(c) == c \in {" ", "\t"}

\* String.prototype.trim
RECURSIVE trimStart(_)
trimStart(s) ==
  IF Len(s) > 0 /\ IsSpace(s[1]) THEN trimStart(SubSeq(s, 2, Len(s))) ELSE s

RECURSIVE trimEnd(_)
trimEnd(s) ==
  IF Len(s) > 0 /\ IsSpace(s[Len(s)]) THEN trimEnd(SubSeq(s, 1, Len(s) - 1)) ELSE s

trim(s) == trimEnd(trimStart(s))

\* String.prototype.startsWith
startsWith(s, prefix) ==
  Len(s) >= Len(prefix) /\ SubSeq(s, 1, Len(prefix)) = prefix

\* args.join(' ')
RECURSIVE join(_)
join(parts) ==
  IF Len(parts) = 0 THEN <<>>
  ELSE IF Len(parts) = 1 THEN parts[1]
  ELSE parts[1] \o <<" ">> \o join(SubSeq(parts, 2, Len(parts)))

\* parseCommandArgs: the for-loop over the characters, from position i on;
\* st holds args, current, inQuotes, quoteChar and escapeNext
RECURSIVE parseArgsFrom(_, _, _)
parseArgsFrom(input, i, st) ==
  IF i > Len(input)
  THEN IF st.current # <<>> THEN Append(st.args, st.current) ELSE st.args
  ELSE LET c == input[i] IN
       IF st.escapeNext
       THEN parseArgsFrom(input, i + 1,
              [st EXCEPT !.current = Append(@, c), !.escapeNext = FALSE])
       ELSE IF c = "\\"
       THEN parseArgsFrom(input, i + 1, [st EXCEPT !.escapeNext = TRUE])
       ELSE IF ~st.inQuotes /\ c \in {"\"", "'"}
       THEN parseArgsFrom(input, i + 1, [st EXCEPT !.inQuotes = TRUE, !.quoteChar = c])
       ELSE IF st.inQuotes /\ c = st.quoteChar
       THEN parseArgsFrom(input, i + 1, [st EXCEPT !.inQuotes = FALSE, !.quoteChar = ""])
       ELSE IF ~st.inQuotes /\ c = " "
       THEN parseArgsFrom(input, i + 1,
              IF st.current # <<>>
              THEN [st EXCEPT !.args = Append(@, st.current), !.current = <<>>]
              ELSE st)
       ELSE parseArgsFrom(input, i + 1, [st EXCEPT !.current = Append(@, c)])

parseCommandArgs(input) ==
  parseArgsFrom(input, 1,
    [args |-> <<>>, current |-> <<>>, inQuotes |-> FALSE, quoteChar |-> "",
     escapeNext |-> FALSE])

\* cmd.split(':')[1]: the text between the first and the second colon
RECURSIVE upToColon(_)
upToColon(s) ==
  IF Len(s) = 0 \/ s[1] = ":" THEN <<>>
  ELSE <<s[1]>> \o upToColon(SubSeq(s, 2, Len(s)))

RECURSIVE afterColon(_)
afterColon(s) ==
  IF Len(s) = 0 THEN <<>>
  ELSE IF s[1] = ":" THEN SubSeq(s, 2, Len(s))
  ELSE afterColon(SubSeq(s, 2, Len(s)))

secondField(s) == upToColon(afterColon(s))

\* parseCommand(commandStr); parts[0] is undefined for a blank string and
\* cmd.startsWith throws
ParseError == [type |-> "error", command |-> <<>>, args |-> <<>>]

parseCommand(commandStr) ==
  LET parts == parseCommandArgs(trim(commandStr)) IN
  IF Len(parts) = 0 THEN ParseError
  ELSE LET cmd == parts[1]
           type == IF startsWith(cmd, <<"f", "i", "l", "e", ":">>) THEN "file"
                   ELSE IF startsWith(cmd, <<"a", "p", "i", ":">>) THEN "api"
                   ELSE IF startsWith(cmd, <<"i", "n", "t", "e", "r", "n", "a", "l", ":">>)
                        THEN "internal"
                   ELSE "shell"
       IN [type |-> type,
           command |-> IF type # "shell" THEN secondField(cmd) ELSE cmd,
           args |-> SubSeq(parts, 2, Len(parts))]

\* `${command.command} ${command.args?.join(' ') || ''}`
fullCommand(command) == command.command \o <<" ">> \o join(command.args)

\* RegExp.prototype.test for a pattern of literal characters and \s+ items
\* (written "\\s+"): does the pattern match the text at position i
RECURSIVE matchAt(_, _, _, _)
matchAt(text, i, pattern, j) ==
  IF j > Len(pattern) THEN TRUE
  ELSE IF i > Len(text) THEN FALSE
  ELSE IF pattern[j] = "\\s+"
  THEN IsSpace(text[i])
       /\ (matchAt(text, i + 1, pattern, j) \/ matchAt(text, i + 1, pattern, j + 1))
  ELSE text[i] = pattern[j] /\ matchAt(text, i + 1, pattern, j + 1)

test(pattern, text) == \E i \in 1..(Len(text) + 1) : matchAt(text, i, pattern, 1)

\* /rm\s+-rf\s+\//, /format\s+/, /del\s+\/s\s+\/q/, />\/dev\/sda/
dangerousPatterns ==
  << <<"r", "m", "\\s+", "-", "r", "f", "\\s+", "/">>,
     <<"f", "o", "r", "m", "a", "t", "\\s+">>,
     <<"d", "e", "l", "\\s+", "/", "s", "\\s+", "/", "q">>,
     <<">", "/", "d", "e", "v", "/", "s", "d", "a">> >>

SafetyLevels == {"safe", "caution", "danger", "forbidden"}

\* what the LLM answers to analyzeCommandIntent: a risk, a reply without a
\* risk, or no usable reply at all
IntentReplies == SafetyLevels \cup {"missing", "error"}

\* analyzeCommandIntent(command).estimatedRisk
estimatedRisk(reply) == IF reply \in SafetyLevels THEN reply ELSE "caution"

\* the category and the targetResources of the analysis the LLM returns
IntentCategories == {"read", "write", "execute", "delete", "network"}
IntentTargets == {<<>>, <<1>>}      \* no path, or the path that exists

\* analyzeCommandIntent(command): the fields of the analysis, or the defaults
\* of the catch block when the chat or the parse failed
analyzeCommandIntent(reply, category, targets) ==
  IF reply = "error"
  THEN [category |-> "execute", targetResources |-> <<>>, estimatedRisk |-> "caution"]
  ELSE [category |-> category, targetResources |-> targets,
        estimatedRisk |-> estimatedRisk(reply)]

\* a bug: the denylist is consulted only for commands classified safe
matchesDenylist_OnlyWhenSafe(command, risk) ==
  risk = "safe" /\ \E k \in DOMAIN dangerousPatterns : test(dangerousPatterns[k], fullCommand(command))

\* for (const pattern of dangerousPatterns) if (pattern.test(fullCommand))
matchesDenylist(command, risk) ==
  \E k \in DOMAIN dangerousPatterns : test(dangerousPatterns[k], fullCommand(command))

\* checkSafety(command, expectedLevel).safe, given the classified risk
checkSafety(command, expectedLevel, risk) ==
  IF risk = "forbidden" THEN FALSE
  ELSE IF risk = "danger" /\ expectedLevel # "danger" THEN FALSE
  ELSE ~matchesDenylist(command, risk)

\* the step commands the executor is given: none, 'rm -rf /', a harmless
\* shell command, a file operation, an internal command, a blank string
NoCommand == <<>>
RmRfRoot == <<"r", "m", " ", "-", "r", "f", " ", "/">>
ListCommand == <<"l", "s">>
FileCommand == <<"f", "i", "l", "e", ":", "r", "e", "a", "d", " ", "a">>
InternalCommand == <<"i", "n", "t", "e", "r", "n", "a", "l", ":", "x">>
BlankCommand == <<" ">>

StepCommands ==
  {NoCommand, RmRfRoot, ListCommand, FileCommand, InternalCommand, BlankCommand}

\* the ExecutionStep objects of task.steps
StepInputs ==
  [requiresApproval : BOOLEAN, command : StepCommands, safetyLevel : SafetyLevels]

\* the DetailedTask objects: task.steps.length and task.rollbackStrategy
\* (steps = Unset when the task has no rollbackStrategy)
TaskInputs ==
  {[steps |-> n, rollback |-> NoRollback] : n \in 0..MaxExecSteps}
    \cup {[steps |-> n, rollback |-> [automatic |-> a, steps |-> r]] :
            n \in 0..MaxExecSteps, a \in BOOLEAN, r \in 0..MaxRollbackSteps}

\* the task the executor is called with
ExecTaskId == 1

\* setTimeout(() => resolve(false), 30000) in requestApproval
StepApprovalDelay == 30000

\* what no executor action changes
ExecutorFrame ==
  /\ UNCHANGED <<optVars, phaseVars, planVars, flagVars, waitVars, detailVars, loopVars>>
  /\ UNCHANGED <<plannerVars, toolVars, m_plans, m_tasks, m_deps, m_heard>>

\* executeTask(task), called on an idle executor; it runs without a pause up
\* to the head of the for-loop
ExecuteTask ==
  /\ x_pc = "idle"
  /\ x_calls[ExecTaskId] = 0
  /\ \E task \in TaskInputs : e_task' = task
  /\ executeTaskStart(ExecTaskId)
  /\ UNCHANGED <<m_results, e_step, e_wait, e_listeners, e_child, e_rolled, e_obs>>
  /\ ExecutorFrame

\* the iteration is over without an error: continue, or the end of the loop body
StepCompletes(step) ==
  /\ e_step' = step
  /\ x_step' = x_step + 1
  /\ x_pc' = "loop"
  /\ e_child' = "none"
  /\ UNCHANGED <<x_current, x_signal, x_result, x_error, x_calls, x_invocations,
                 m_status, m_results, m_active, e_task, e_rolled>>

\* if (task.rollbackStrategy?.automatic), and the rollback has a step to run
rollsBack(task) == task.rollback.automatic /\ task.rollback.steps > 0

\* catch (stepError): the rollback when it is automatic, then throw stepError,
\* which the outer catch turns into the failure result
StepThrows(step, error) ==
  /\ e_step' = step
  /\ IF rollsBack(e_task)
     THEN /\ x_pc' = "rollback"
          /\ x_error' = error
          /\ e_child' = "running"
          /\ UNCHANGED <<x_current, x_signal, x_result, x_invocations, m_status,
                         m_results>>
     ELSE /\ executeTaskReturn("failure", error)
          /\ e_child' = "none"
  /\ UNCHANGED <<x_step, x_calls, m_active, e_task, e_rolled>>

\* the step once executeStep has returned or thrown: the intent was a local
\* of checkSafety
settled(step, fate) ==
  [step EXCEPT !.fate = fate, !.category = "none", !.targets = <<>>]

\* executeStep(step), up to its first await
ExecuteStep(step) ==
  IF step.command = NoCommand
  THEN StepCompletes([step EXCEPT !.fate = "simulated"])
  ELSE IF parseCommand(step.command).type = "error"
  THEN StepThrows([step EXCEPT !.fate = "failed"], "step")
  ELSE \* await this.checkSafety(command, step.safetyLevel)
       /\ e_step' = step
       /\ x_pc' = "classify"
       /\ UNCHANGED <<x_current, x_signal, x_step, x_result, x_error, x_calls,
                      x_invocations, m_status, m_results, m_active, e_task, e_child,
                      e_rolled>>

\* the handler ExecutionFlow puts on the executor's 'approval:required': with
\* autoApprove it emits 'approval:response' before it returns, and the event
\* goes to the once-listeners registered at that moment
autoAnswered(listeners) == IF f_opts.autoApprove THEN listeners ELSE {}

\* a bug: requestApproval registers its listener before it emits the request
requestApproval_ListensFirst(listeners, request) ==
  LET heard == autoAnswered(listeners \cup {request})
  IN [answered |-> request \in heard,
      listeners |-> (listeners \cup {request}) \ heard]

\* requestApproval(step) up to the return of its promise: emit
\* 'approval:required', then once('approval:response', ...); whether the
\* request was answered, and the listeners left on the executor
requestApproval(listeners, request) ==
  LET heard == autoAnswered(listeners)
  IN [answered |-> request \in heard,
      listeners |-> (listeners \ heard) \cup {request}]

\* the head of the for-loop over task.steps, and the loop body up to its
\* first await
ExecStepLoop ==
  /\ x_pc = "loop"
  /\ IF x_step > e_task.steps
     THEN /\ executeTaskReturn("success", "none")
          /\ UNCHANGED <<x_step, x_calls, m_active, stepVars>>
     ELSE IF x_signal = "aborted"
     THEN \* throw new Error('Task execution aborted')
          /\ executeTaskReturn("failure", "aborted")
          /\ UNCHANGED <<x_step, x_calls, m_active, stepVars>>
     ELSE \E s \in StepInputs :
            LET step == [requiresApproval |-> s.requiresApproval,
                         command |-> s.command, safetyLevel |-> s.safetyLevel,
                         approved |-> IF s.requiresApproval THEN "waiting"
                                      ELSE "unasked",
                         risk |-> "none", category |-> "none", targets |-> <<>>,
                         fate |-> "pending"]
                asked == requestApproval(e_listeners, x_step)
            IN IF step.requiresApproval
               THEN \* await this.requestApproval(step)
                    /\ e_listeners' = asked.listeners
                    /\ IF asked.answered
                       THEN /\ ExecuteStep([step EXCEPT !.approved = "yes"])
                            /\ UNCHANGED <<e_wait, e_obs>>
                       ELSE /\ e_step' = step
                            /\ x_pc' = "approval"
                            /\ e_wait' = StepApprovalDelay
                            /\ UNCHANGED <<x_current, x_signal, x_step, x_result,
                                           x_error, x_calls, x_invocations, m_status,
                                           m_results, m_active, e_task, e_child,
                                           e_rolled, e_obs>>
               ELSE /\ ExecuteStep(step)
                    /\ UNCHANGED <<e_wait, e_listeners, e_obs>>
  /\ ExecutorFrame

\* a bug: a step that was not approved is executed all the same
StepDenied_Executes ==
  /\ ExecuteStep([e_step EXCEPT !.approved = "no"])
  /\ UNCHANGED e_obs

\* if (!approved) { log('warning', 'Step skipped ...'); continue }
StepDenied ==
  /\ StepCompletes([e_step EXCEPT !.approved = "no", !.fate = "skipped"])
  /\ e_obs' = [e_obs EXCEPT !.skips = @ + 1]

\* emit('approval:response', approved) while requestApproval waits
ApprovalResponse ==
  /\ x_pc = "approval"
  /\ e_wait' = Unset
  /\ e_listeners' = {}
  /\ \E approved \in BOOLEAN :
       IF approved
       THEN ExecuteStep([e_step EXCEPT !.approved = "yes"]) /\ UNCHANGED e_obs
       ELSE StepDenied
  /\ ExecutorFrame

\* the timer of requestApproval fires: resolve(false)
StepApprovalTimeout ==
  /\ x_pc = "approval"
  /\ e_wait # Unset
  /\ e_wait' = Unset
  /\ StepDenied
  /\ UNCHANGED e_listeners
  /\ ExecutorFrame

\* the LLM answers checkSafety's analyzeCommandIntent (or fails to); the rest
\* of executeStep up to its next await
CheckSafety ==
  /\ x_pc = "classify"
  /\ \E reply \in IntentReplies, category \in IntentCategories, targets \in IntentTargets :
       LET intent == analyzeCommandIntent(reply, category, targets)
           risk == intent.estimatedRisk
           command == parseCommand(e_step.command)
           step == [e_step EXCEPT !.risk = risk, !.category = intent.category,
                                  !.targets = intent.targetResources]
       IN IF ~checkSafety(command, step.safetyLevel, risk)
          THEN \* throw new Error('Safety check failed: ...')
               StepThrows(settled(step, "rejected"), "safety")
          ELSE IF command.type \in {"shell", "file"}
          THEN \* spawn(...), or the fs call
               /\ e_step' = [step EXCEPT !.fate = "executing"]
               /\ x_pc' = command.type
               /\ e_child' = IF command.type = "shell" THEN "running" ELSE "none"
               /\ UNCHANGED <<x_current, x_signal, x_step, x_result, x_error, x_calls,
                              x_invocations, m_status, m_results, m_active, e_task,
                              e_rolled>>
          ELSE \* executeInternalCommand
               StepCompletes(settled(step, "completed"))
  /\ UNCHANGED <<e_wait, e_listeners, e_obs>>
  /\ ExecutorFrame

\* the exit codes a child can close with: null after the SIGTERM of the abort
\* handler, unless the command exits by itself first
ExitCodes(child) ==
  IF child = "killed" THEN {"zero", "nonzero", "null"} ELSE {"zero", "nonzero"}

\* child.on('close', (code) => ...) of the step's shell command
ChildClose ==
  /\ x_pc = "shell"
  /\ \E code \in ExitCodes(e_child) :
       IF code = "zero"
       THEN StepCompletes(settled(e_step, "completed"))
       ELSE StepThrows(settled(e_step, "failed"),
                       IF code = "null" THEN "killed" ELSE "step")
  /\ UNCHANGED <<e_wait, e_listeners, e_obs>>
  /\ ExecutorFrame

\* the fs call of executeFileOperation settles
FileOperationDone ==
  /\ x_pc = "file"
  /\ \/ StepCompletes(settled(e_step, "completed"))
     \/ StepThrows(settled(e_step, "failed"), "step")
  /\ UNCHANGED <<e_wait, e_listeners, e_obs>>
  /\ ExecutorFrame

\* a bug: the error of a failed rollback step is thrown
RollbackStepDone_Rethrows ==
  /\ x_pc = "rollback"
  /\ \E outcome \in {"completed", "failed"} :
       /\ e_rolled' = Append(e_rolled, outcome)
       /\ IF outcome = "completed" /\ Len(e_rolled) + 1 < e_task.rollback.steps
          THEN UNCHANGED <<x_pc, x_current, x_signal, x_result, x_error,
                           x_invocations, m_status, m_results, e_child>>
          ELSE /\ executeTaskReturn("failure",
                                    IF outcome = "failed" THEN "rollback" ELSE x_error)
               /\ e_child' = "none"
  /\ UNCHANGED <<x_step, x_calls, m_active, e_task, e_step, e_wait, e_listeners,
               e_obs>>
  /\ ExecutorFrame

\* one iteration of executeRollback's loop ends: the rollback command closed,
\* with exit code 0 or not (or could not be started); after the last one the
\* step error is thrown again
RollbackStepDone ==
  /\ x_pc = "rollback"
  /\ \E outcome \in {"completed", "failed"} :
       /\ e_child = "killed" => outcome = "failed"
       /\ e_rolled' = Append(e_rolled, outcome)
       /\ IF Len(e_rolled) + 1 < e_task.rollback.steps
          THEN /\ e_child' = "running"
               /\ UNCHANGED <<x_pc, x_current, x_signal, x_result, x_error,
                              x_invocations, m_status, m_results>>
          ELSE /\ executeTaskReturn("failure", x_error)
               /\ e_child' = "none"
  /\ UNCHANGED <<x_step, x_calls, m_active, e_task, e_step, e_wait, e_listeners,
               e_obs>>
  /\ ExecutorFrame

\* TaskExecutor.abort(): abortController.abort(), on which the abort handler
\* of a running child sends SIGTERM; executeTask runs from its call to the
\* first loop head without a pause, so abort() cannot come in between
\* what executeTask is suspended at: an await, or the continuation of the one
\* that has just settled, before a next step ("between") or after the last
doingNow ==
  IF x_pc # "loop" THEN x_pc
  ELSE IF x_step <= e_task.steps THEN "between" ELSE "end"

ExecutorAbort ==
  /\ x_signal # "null"
  /\ ~(x_pc = "loop" /\ x_step = 1)
  /\ x_signal' = "aborted"
  /\ e_child' = IF x_signal = "live" /\ e_child = "running" THEN "killed" ELSE e_child
  /\ e_obs' = IF e_obs.abortAt = "none"
               THEN [e_obs EXCEPT !.abortAt = doingNow]
               ELSE e_obs
  /\ UNCHANGED <<x_pc, x_current, x_step, x_result, x_error, x_calls, x_invocations,
                 e_task, e_step, e_wait, e_listeners, e_rolled>>
  /\ UNCHANGED <<m_status, m_results, m_active>>
  /\ ExecutorFrame

(***************************************************************************)
(* AsyncCommandExecutor: the registry of background processes.  A process  *)
(* id 'bg-n' is kept as the number n.  Strings are sequences of            *)
(* characters.                                                             *)
(***************************************************************************)

\* the patterns of isServerCommand, every one anchored at the start of the
\* command; an alternation or an optional group is written out as one
\* pattern per alternative
serverPatterns ==
  { <<"p", "y", "t", "h", "o", "n", "\\s+", ".+", ".", "p", "y">>,
    <<"p", "y", "t", "h", "o", "n", "3", "\\s+", ".+", ".", "p", "y">>,
    <<"f", "l", "a", "s", "k", "\\s+", "r", "u", "n">>,
    <<"d", "j", "a", "n", "g", "o", "-", "a", "d", "m", "i", "n", "\\s+", "r", "u", "n", "s", "e", "r", "v", "e", "r">>,
    <<"p", "y", "t", "h", "o", "n", "\\s+", "-", "m", "\\s+", "f", "l", "a", "s", "k">>,
    <<"n", "p", "m", "\\s+", "s", "t", "a", "r", "t">>,
    <<"n", "p", "m", "\\s+", "d", "e", "v">>,
    <<"n", "p", "m", "\\s+", "s", "e", "r", "v", "e">>,
    <<"n", "p", "m", "\\s+", "r", "u", "n", "\\s+", "s", "t", "a", "r", "t">>,
    <<"n", "p", "m", "\\s+", "r", "u", "n", "\\s+", "d", "e", "v">>,
    <<"n", "p", "m", "\\s+", "r", "u", "n", "\\s+", "s", "e", "r", "v", "e">>,
    <<"n", "o", "d", "e", "\\s+", ".+", ".", "j", "s">>,
    <<"n", "o", "d", "e", "m", "o", "n">>,
    <<"y", "a", "r", "n", "\\s+", "s", "t", "a", "r", "t">>,
    <<"y", "a", "r", "n", "\\s+", "d", "e", "v">>,
    <<"p", "h", "p", "\\s+", "-", "S">>,
    <<"r", "a", "i", "l", "s", "\\s+", "s", "e", "r", "v", "e", "r">>,
    <<"d", "o", "t", "n", "e", "t", "\\s+", "r", "u", "n">>,
    <<"j", "a", "v", "a", "\\s+", "-", "j", "a", "r">>,
    <<"g", "o", "\\s+", "r", "u", "n">>,
    <<"c", "a", "r", "g", "o", "\\s+", "r", "u", "n">>,
    <<"h", "t", "t", "p", "-", "s", "e", "r", "v", "e", "r">>,
    <<"l", "i", "v", "e", "-", "s", "e", "r", "v", "e", "r">>,
    <<"w", "e", "b", "p", "a", "c", "k", "-", "d", "e", "v", "-", "s", "e", "r", "v", "e", "r">> }

\* RegExp matching of a pattern of literal characters, \s+ and .+ from
\* position i of the text on
RECURSIVE prefixMatch(_, _, _, _)
prefixMatch(text, i, pattern, j) ==
  IF j > Len(pattern) THEN TRUE
  ELSE IF i > Len(text) THEN FALSE
  ELSE IF pattern[j] = "\\s+"
  THEN IsSpace(text[i])
       /\ (prefixMatch(text, i + 1, pattern, j) \/ prefixMatch(text, i + 1, pattern, j + 1))
  ELSE IF pattern[j] = ".+"
  THEN prefixMatch(text, i + 1, pattern, j) \/ prefixMatch(text, i + 1, pattern, j + 1)
  ELSE text[i] = pattern[j] /\ prefixMatch(text, i + 1, pattern, j + 1)

isServerCommand(command) ==
  \E pattern \in serverPatterns : prefixMatch(trim(command), 1, pattern, 1)

NpmStart == <<"n", "p", "m", " ", "s", "t", "a", "r", "t">>
Lint == <<"e", "s", "l", "i", "n", "t", " ", ".">>

\* the commandStr arguments
AsyncCommands == {NpmStart, Lint}

\* the AsyncExecutionOptions arguments: background, detached, captureOutput
AsyncOptions == [background : BOOLEAN, detached : BOOLEAN, captureOutput : BOOLEAN]

\* what a child process writes, and the message of a spawn error
ListeningLine == <<"L", "i", "s", "t", "e", "n", "i", "n", "g", " ", "o", "n", " ", "h", "t", "t", "p", ":", "/", "/", "l", "o", "c", "a", "l", "h", "o", "s", "t", ":", "3", "0", "0", "1">>
PlainLine == <<"c", "o", "m", "p", "i", "l", "e", "d">>
OutputChunks == {ListeningLine, PlainLine}
ErrorMessage == <<"s", "p", "a", "w", "n", " ", "E", "N", "O", "E", "N", "T">>

IsDigit(c) == c \in {"0", "1", "2", "3", "4", "5", "6", "7", "8", "9"}

\* \s of the port patterns, with the '\n' that join puts between the chunks
IsWhite(c) == c \in {" ", "\t", "\n"}

\* the text a greedy (\d+) captures at position i
RECURSIVE digitsAt(_, _)
digitsAt(text, i) ==
  IF i <= Len(text) /\ IsDigit(text[i]) THEN <<text[i]>> \o digitsAt(text, i + 1) ELSE <<>>

literalAt(text, i, literal) ==
  /\ i + Len(literal) - 1 <= Len(text)
  /\ SubSeq(text, i, i + Len(literal) - 1) = literal

\* the position after the longest run of [:\s] from position i on
RECURSIVE separatorsEnd(_, _)
separatorsEnd(text, i) ==
  IF i <= Len(text) /\ (text[i] = ":" \/ IsWhite(text[i]))
  THEN separatorsEnd(text, i + 1) ELSE i

\* the position after the longest run of [^:] from position i on
RECURSIVE hostEnd(_, _)
hostEnd(text, i) ==
  IF i <= Len(text) /\ text[i] # ":" THEN hostEnd(text, i + 1) ELSE i

least(S) == CHOOSE x \in S : \A y \in S : x <= y
greatest(S) == CHOOSE x \in S : \A y \in S : x >= y

NoPort == <<>>        \* let port: string | null = null

\* /(?:port|PORT)[:\s]+(\d+)/
portAfterKeyword(text) ==
  LET hit(i) == /\ literalAt(text, i, <<"p", "o", "r", "t">>)
                   \/ literalAt(text, i, <<"P", "O", "R", "T">>)
                /\ separatorsEnd(text, i + 4) > i + 4
                /\ digitsAt(text, separatorsEnd(text, i + 4)) # <<>>
      hits == {i \in 1..Len(text) : hit(i)}
  IN IF hits = {} THEN NoPort ELSE digitsAt(text, separatorsEnd(text, least(hits) + 4))

\* /Listening on[:\s]+.*:(\d+)/: the greedy .* stays on the line and gives
\* back up to the last ':' that a digit follows
portAfterListening(text) ==
  LET colons(from) == {q \in from..Len(text) :
                         /\ text[q] = ":"
                         /\ digitsAt(text, q + 1) # <<>>
                         /\ \A r \in from..(q - 1) : text[r] # "\n"}
      runs(i) == {m \in 1..(separatorsEnd(text, i + 12) - (i + 12)) : colons(i + 12 + m) # {}}
      hit(i) == /\ literalAt(text, i, <<"L", "i", "s", "t", "e", "n", "i", "n", "g", " ", "o", "n">>)
                /\ runs(i) # {}
      hits == {i \in 1..Len(text) : hit(i)}
  IN IF hits = {} THEN NoPort
     ELSE LET i == least(hits)
          IN digitsAt(text, greatest(colons(i + 12 + greatest(runs(i)))) + 1)

\* /http:\/\/[^:]+:(\d+)/
portAfterUrl(text) ==
  LET hit(i) == /\ literalAt(text, i, <<"h", "t", "t", "p", ":", "/", "/">>)
                /\ hostEnd(text, i + 7) > i + 7
                /\ hostEnd(text, i + 7) <= Len(text)
                /\ digitsAt(text, hostEnd(text, i + 7) + 1) # <<>>
      hits == {i \in 1..Len(text) : hit(i)}
  IN IF hits = {} THEN NoPort ELSE digitsAt(text, hostEnd(text, least(hits) + 7) + 1)

\* /:(\d{4,5})/
portAfterColon(text) ==
  LET hits == {i \in 1..Len(text) : text[i] = ":" /\ Len(digitsAt(text, i + 1)) >= 4}
  IN IF hits = {} THEN NoPort
     ELSE LET digits == digitsAt(text, least(hits) + 1)
          IN IF Len(digits) > 5 THEN SubSeq(digits, 1, 5) ELSE digits

\* checkServerStatus: the for-loop over portPatterns, first match wins
detectPort(text) ==
  IF portAfterKeyword(text) # NoPort THEN portAfterKeyword(text)
  ELSE IF portAfterListening(text) # NoPort THEN portAfterListening(text)
  ELSE IF portAfterUrl(text) # NoPort THEN portAfterUrl(text)
  ELSE portAfterColon(text)

\* [...process.output, ...process.error].join('\n')
RECURSIVE joinLines(_)
joinLines(chunks) ==
  IF Len(chunks) = 0 THEN <<>>
  ELSE IF Len(chunks) = 1 THEN chunks[1]
  ELSE chunks[1] \o <<"\n">> \o joinLines(SubSeq(chunks, 2, Len(chunks)))

allOutput(process) == joinLines(process.output \o process.error)

NoExitCode == "undefined"     \* exitCode?: number, while it is not set

\* the codes the 'close' event carries, as text: 0, a failure code, or null
\* when the child was ended by a signal (the SIGTERM of killBackgroundProcess,
\* or a signal from anywhere else)
CloseCodes == {"0", "1", "null"}

\* executeInBackground: the bgProcess object, with what is attached to it:
\* whether the data listeners were registered, and the child's own state:
\* what it wrote, and whether it is "alive", has had its 'error' event
\* ("errored") or its 'close' event ("closed")
bgProcess(commandStr, options) ==
  [command |-> commandStr,
   capturing |-> options.captureOutput /\ ~options.detached,
   output |-> <<>>,
   error |-> <<>>,
   status |-> "running",
   exitCode |-> NoExitCode,
   wrote |-> <<>>,
   child |-> "alive"]

\* b_last while the handler that ran last was not killBackgroundProcess
NoCall == [op |-> "other", id |-> NoId, ret |-> FALSE]

AsyncStart ==
  /\ b_counter = 0
  /\ b_procs = <<>>
  /\ b_timers = {}
  /\ b_ready = {}
  /\ b_last = NoCall

\* killBackgroundProcess(processId) returned ret
returned(processId, ret) == [op |-> "killBackgroundProcess", id |-> processId, ret |-> ret]

\* executeInBackground(commandStr, options)
executeInBackground(commandStr, options) ==
  /\ b_counter' = b_counter + 1
  /\ b_procs' = Append(b_procs, bgProcess(commandStr, options))
  /\ b_timers' = IF isServerCommand(commandStr) THEN b_timers \cup {b_counter + 1}
                 ELSE b_timers
  /\ b_last' = NoCall
  /\ UNCHANGED b_ready

\* executeAsync(commandStr, options); a command run in the foreground
\* (executeWithTimeout) keeps its child and its timer inside the promise it
\* returns and touches no field of the executor
ExecuteAsync(limit) ==
  \E commandStr \in AsyncCommands, options \in AsyncOptions :
    /\ b_counter < limit
    /\ IF isServerCommand(commandStr)
       THEN executeInBackground(commandStr,
              [options EXCEPT !.background = TRUE, !.detached = TRUE, !.captureOutput = TRUE])
       ELSE IF ~options.background
       THEN /\ b_last' = NoCall
            /\ UNCHANGED <<b_counter, b_procs, b_timers, b_ready>>
       ELSE executeInBackground(commandStr, options)
    /\ UNCHANGED <<plannerVars, managerVars, flowVars, snapVars, analyzeVars,
                 criticalVars>>

\* the chunks written by the children from process id on
RECURSIVE written(_)
written(id) == IF id > Len(b_procs) THEN 0 ELSE Len(b_procs[id].wrote) + written(id + 1)

\* the child writes a chunk to its stdout or stderr; the 'data' callbacks
\* exist only when the output is captured
ChildData ==
  \E id \in DOMAIN b_procs, stream \in {"stdout", "stderr"}, chunk \in OutputChunks :
    /\ b_procs[id].child = "alive"
    /\ written(1) < MaxChunks
    /\ b_procs' = [b_procs EXCEPT
         ![id].wrote = Append(@, chunk),
         ![id].output = IF b_procs[id].capturing /\ stream = "stdout"
                        THEN Append(@, chunk) ELSE @,
         ![id].error = IF b_procs[id].capturing /\ stream = "stderr"
                       THEN Append(@, chunk) ELSE @]
    /\ b_last' = NoCall
    /\ UNCHANGED <<b_counter, b_timers, b_ready>>
    /\ UNCHANGED <<plannerVars, managerVars, flowVars, snapVars, analyzeVars,
                 criticalVars>>

\* child.on('close', (code) => ...)
statusAfterClose(code) == IF code = "0" THEN "completed" ELSE "failed"

ChildClosed ==
  \E id \in DOMAIN b_procs, code \in CloseCodes :
    /\ b_procs[id].child # "closed"
    /\ b_procs[id].child = "errored" => code = "1"
    /\ b_procs' = [b_procs EXCEPT
         ![id].status = statusAfterClose(code),
         ![id].exitCode = IF code \in {"0", "null"} THEN NoExitCode ELSE code,
         ![id].child = "closed"]
    /\ b_last' = NoCall
    /\ UNCHANGED <<b_counter, b_timers, b_ready>>
    /\ UNCHANGED <<plannerVars, managerVars, flowVars, snapVars, analyzeVars,
                 criticalVars>>

\* child.on('error', (error) => ...)
ChildError ==
  \E id \in DOMAIN b_procs :
    /\ b_procs[id].child = "alive"
    /\ b_procs[id].wrote = <<>>
    /\ b_procs' = [b_procs EXCEPT
         ![id].status = "failed",
         ![id].error = Append(@, ErrorMessage),
         ![id].child = "errored"]
    /\ b_last' = NoCall
    /\ UNCHANGED <<b_counter, b_timers, b_ready>>
    /\ UNCHANGED <<plannerVars, managerVars, flowVars, snapVars, analyzeVars,
                 criticalVars>>

\* the timer of executeInBackground fires: checkServerStatus(bgProcess)
serverReady(id, process) ==
  IF detectPort(allOutput(process)) # NoPort
  THEN {[id |-> id, port |-> detectPort(allOutput(process))]}
  ELSE {}

CheckServerStatus ==
  \E id \in b_timers :
    /\ b_timers' = b_timers \ {id}
    /\ b_ready' = b_ready \cup serverReady(id, b_procs[id])
    /\ b_last' = NoCall
    /\ UNCHANGED <<b_counter, b_procs>>
    /\ UNCHANGED <<plannerVars, managerVars, flowVars, snapVars, analyzeVars,
                 criticalVars>>

\* killBackgroundProcess(processId): the guard, and the registry it leaves
canKill(processId) ==
  processId \in DOMAIN b_procs /\ b_procs[processId].status = "running"

killed(procs, processId) ==
  [procs EXCEPT ![processId].status = "killed"]

KillBackgroundProcess ==
  \E processId \in 1..(b_counter + 1) :
    /\ IF canKill(processId)
       THEN /\ b_procs' = killed(b_procs, processId)
            /\ b_last' = returned(processId, TRUE)
       ELSE /\ b_last' = returned(processId, FALSE)
            /\ UNCHANGED b_procs
    /\ UNCHANGED <<b_counter, b_timers, b_ready>>
    /\ UNCHANGED <<plannerVars, managerVars, flowVars, snapVars, analyzeVars,
                 criticalVars>>

\* killAllBackgroundProcesses(): killBackgroundProcess for every entry whose
\* status is 'running'
killFrom_Clears(procs, id) == <<>>

RECURSIVE killFrom(_, _)
killFrom(procs, id) ==
  IF id > Len(procs) THEN procs
  ELSE killFrom(IF procs[id].status = "running" THEN killed(procs, id) ELSE procs, id + 1)

KillAllBackgroundProcesses ==
  /\ b_procs' = killFrom(b_procs, 1)
  /\ b_last' = NoCall
  /\ UNCHANGED <<b_counter, b_timers, b_ready>>
  /\ UNCHANGED <<plannerVars, managerVars, flowVars, snapVars, analyzeVars,
                 criticalVars>>

(***************************************************************************)
(* CommandExecutor: snapshots and rollback.  A path is a number, a         *)
(* snapshot id (uuidv4, never the same twice) the number of the snapshot.  *)
(***************************************************************************)

Paths == 1..MaxPaths

Contents == {"v1", "v2"}      \* what a file can hold
Absent == "absent"            \* the path does not exist: readFile throws

NoSnapshot == [id |-> NoId, content |-> Absent]

\* s_last while the handler that ran last was not rollback
NoRollbackCall == [id |-> NoId, outcome |-> "none"]

\* the file system before anything ran: the first path exists
SnapshotStart ==
  /\ s_files = [p \in Paths |-> IF p = 1 THEN "v1" ELSE Absent]
  /\ s_snaps = [p \in Paths |-> NoSnapshot]
  /\ s_taken = <<>>
  /\ s_pending = <<>>
  /\ s_last = NoRollbackCall

\* the intent.targetResources lists handed to createSnapshots
ResourceLists ==
  {<<>>} \cup {<<p>> : p \in Paths} \cup {<<p, q>> : p \in Paths, q \in Paths}

\* createSnapshots(resources), up to the first readFile
CreateSnapshots ==
  /\ s_pending = <<>>
  /\ Len(s_taken) < MaxSnapshots
  /\ \E resources \in ResourceLists \ {<<>>} : s_pending' = resources
  /\ s_last' = NoRollbackCall
  /\ UNCHANGED <<s_files, s_snaps, s_taken>>
  /\ UNCHANGED <<plannerVars, managerVars, flowVars, asyncVars, analyzeVars,
                 criticalVars>>

\* the snapshots map after one iteration of the loop for resource: set() when
\* readFile returned the content, nothing when it threw
snapshotsAfter(resource) ==
  IF s_files[resource] = Absent THEN s_snaps
  ELSE [s_snaps EXCEPT ![resource] = [id |-> Len(s_taken) + 1, content |-> s_files[resource]]]

\* one iteration of the for-loop of createSnapshots: readFile returns or throws
SnapshotResource ==
  /\ s_pending # <<>>
  /\ LET resource == Head(s_pending)
     IN /\ s_snaps' = snapshotsAfter(resource)
        /\ s_taken' = IF s_files[resource] = Absent THEN s_taken
                      ELSE Append(s_taken, [file |-> resource, content |-> s_files[resource]])
  /\ s_pending' = Tail(s_pending)
  /\ s_last' = NoRollbackCall
  /\ UNCHANGED s_files
  /\ UNCHANGED <<plannerVars, managerVars, flowVars, asyncVars, analyzeVars,
                 criticalVars>>

\* the executed command, or anything else, writes or removes a file
FileChanged ==
  /\ \E p \in Paths, c \in Contents \cup {Absent} :
       /\ s_files[p] # c
       /\ s_files' = [s_files EXCEPT ![p] = c]
  /\ s_last' = NoRollbackCall
  /\ UNCHANGED <<s_snaps, s_taken, s_pending>>
  /\ UNCHANGED <<plannerVars, managerVars, flowVars, asyncVars, analyzeVars,
                 criticalVars>>

\* rollback(snapshotId): the entry of the map whose snapshot has the id
holding(snapshotId) == {file \in Paths : s_snaps[file].id = snapshotId}

Rollback ==
  /\ \E snapshotId \in 1..(Len(s_taken) + 1) :
       IF holding(snapshotId) # {}
       THEN /\ s_files' = [file \in Paths |->
                             IF file \in holding(snapshotId) THEN s_snaps[file].content
                             ELSE s_files[file]]
            /\ s_last' = [id |-> snapshotId, outcome |-> "completed"]
       ELSE \* throw new Error(`Snapshot not found: ${snapshotId}`)
            /\ s_last' = [id |-> snapshotId, outcome |-> "not found"]
            /\ UNCHANGED s_files
  /\ UNCHANGED <<s_snaps, s_taken, s_pending>>
  /\ UNCHANGED <<plannerVars, managerVars, flowVars, asyncVars, analyzeVars,
                 criticalVars>>

(***************************************************************************)
(* TaskPlanner.analyzeRequest and parseAIResponse.  An LLM response is a   *)
(* sequence of tokens: the braces, the code fence, the members a plan      *)
(* object can have ("tasks": a list of one task, "notasks": an empty task  *)
(* list, "total": estimatedTotalDuration), a JSON number and prose.        *)
(***************************************************************************)

Tokens == {"{", "}", "fence", "tasks", "notasks", "total", "42", "prose"}

RECURSIVE SeqsUpTo(_, _)
SeqsUpTo(S, n) ==
  IF n = 0 THEN {<<>>}
  ELSE LET shorter == SeqsUpTo(S, n - 1)
       IN shorter \cup {Append(s, x) : s \in {t \in shorter : Len(t) = n - 1}, x \in S}

\* what chatAgent.chat resolves with
Responses == SeqsUpTo(Tokens, MaxTokens) \ {<<>>}

\* the userInput arguments
UserInputs == {"Invalid request", "Create a web app"}

\* JSON.parse throws; tasks is Unset where the value has no tasks field
SyntaxError == [ok |-> FALSE, tasks |-> Unset, total |-> 0]

\* the value of the "tasks" member of an object: the last one wins
RECURSIVE tasksMember(_, _)
tasksMember(text, k) ==
  IF k < 1 THEN Unset
  ELSE IF text[k] = "tasks" THEN 1
  ELSE IF text[k] = "notasks" THEN 0
  ELSE tasksMember(text, k - 1)

\* JSON.parse(text): an object of plan members, a number, or a SyntaxError;
\* the value is kept as its fields tasks (the length of the list) and
\* estimatedTotalDuration
JSONParse(text) ==
  IF /\ Len(text) >= 2 /\ text[1] = "{" /\ text[Len(text)] = "}"
     /\ \A k \in 2..(Len(text) - 1) : text[k] \in {"tasks", "notasks", "total"}
  THEN [ok |-> TRUE, tasks |-> tasksMember(text, Len(text)),
        total |-> IF \E k \in DOMAIN text : text[k] = "total" THEN 900 ELSE 0]
  ELSE IF text = <<"42">> THEN [ok |-> TRUE, tasks |-> Unset, total |-> 0]
  ELSE SyntaxError

positions(text, token) == {k \in DOMAIN text : text[k] = token}

\* the match of the brace pattern: from the first '{' to the last '}'
jsonMatch(response) ==
  LET opens == positions(response, "{")
      closes == positions(response, "}")
  IN IF opens # {} /\ closes # {} /\ least(opens) < greatest(closes)
     THEN SubSeq(response, least(opens), greatest(closes))
     ELSE <<>>

\* the capture of the code block pattern: what stands between the first
\* fence and the next one
codeBlockMatch(response) ==
  LET fences == positions(response, "fence")
  IN IF Cardinality(fences) >= 2
     THEN LET first == least(fences)
          IN [found |-> TRUE,
              text |-> SubSeq(response, first + 1, least(fences \ {first}) - 1)]
     ELSE [found |-> FALSE, text |-> <<>>]

\* the text parseAIResponse hands to JSON.parse
extracted(response) ==
  IF jsonMatch(response) # <<>> THEN jsonMatch(response)
  ELSE IF codeBlockMatch(response).found THEN codeBlockMatch(response).text
  ELSE response

\* a bug: the parse error is passed on to the caller
parseAIResponse_Rethrows(response) == JSONParse(extracted(response))

\* parseAIResponse(response)
parseAIResponse(response) ==
  LET parsed == JSONParse(extracted(response))
  IN IF parsed = SyntaxError
     THEN \* catch: return { tasks: [], estimatedTotalDuration: 0 }
          [ok |-> TRUE, tasks |-> 0, total |-> 0]
     ELSE parsed

NoPlan == [userRequest |-> "", tasks |-> 0, estimatedTotalDuration |-> 0,
           approved |-> FALSE, outcome |-> "none"]

\* throw new Error('Failed to create task plan')
FailedPlan == [NoPlan EXCEPT !.outcome = "thrown"]

\* analyzeRequest(userInput), from the response on: planData.tasks.map
\* throws for a value without tasks; every task of the model has the
\* estimatedDuration 60
planFrom(userInput, response) ==
  LET planData == parseAIResponse(response)
  IN IF ~planData.ok \/ planData.tasks = Unset THEN FailedPlan
     ELSE [userRequest |-> userInput,
           tasks |-> planData.tasks,
           estimatedTotalDuration |->
             IF planData.total # 0 THEN planData.total ELSE 60 * planData.tasks,
           approved |-> FALSE,
           outcome |-> "returned"]

AnalyzeStart ==
  /\ a_pc = "idle"
  /\ a_input = ""
  /\ a_response = <<>>
  /\ a_plan = NoPlan

\* analyzeRequest(userInput), up to await this.chatAgent.chat(fullPrompt)
AnalyzeRequest ==
  /\ a_pc = "idle"
  /\ \E userInput \in UserInputs : a_input' = userInput
  /\ a_pc' = "chat"
  /\ a_response' = <<>>
  /\ a_plan' = NoPlan
  /\ UNCHANGED <<plannerVars, managerVars, flowVars, asyncVars, snapVars,
                 criticalVars>>

\* the chat resolves with a response
ChatResolved ==
  /\ a_pc = "chat"
  /\ \E response \in Responses :
       /\ a_response' = response
       /\ a_plan' = planFrom(a_input, response)
  /\ a_pc' = "idle"
  /\ UNCHANGED a_input
  /\ UNCHANGED <<plannerVars, managerVars, flowVars, asyncVars, snapVars,
                 criticalVars>>

\* the chat rejects
ChatRejected ==
  /\ a_pc = "chat"
  /\ a_plan' = FailedPlan
  /\ a_pc' = "idle"
  /\ UNCHANGED <<a_input, a_response>>
  /\ UNCHANGED <<plannerVars, managerVars, flowVars, asyncVars, snapVars,
                 criticalVars>>

\* the tools before anything ran
(***************************************************************************)
(* The planner with plan metadata: analyzeRequest from the mapped tasks    *)
(* on, i.e. optimizeTaskOrder and findCriticalPath.  validatePlan,         *)
(* detectCycles and getExecutionOrder of this planner are the ones above.  *)
(* pathLengths is a Map: the sequence of its entries in insertion order.   *)
(***************************************************************************)

\* the depth of recursion at which the engine throws RangeError: Maximum call
\* stack size exceeded.  The real limit is in the thousands; what matters is
\* that it is deeper than any chain of distinct tasks followed by one unknown
\* id, so that only a recursion that comes back to a task can reach it
StackLimit == MaxTasks + 2

\* pathLengths.has(taskId), pathLengths.get(taskId)
hasLength(lengths, taskId) == \E k \in DOMAIN lengths : lengths[k].id = taskId
getLength(lengths, taskId) ==
  lengths[CHOOSE k \in DOMAIN lengths : lengths[k].id = taskId].length

higher(a, b) == IF a > b THEN a ELSE b

\* task.estimatedDuration || 0, in units of the default every task gets in
\* analyzeRequest when the response names none
estimatedDuration(task) == 1

RECURSIVE calculatePath(_, _, _, _)
RECURSIVE depPaths(_, _, _, _, _, _)
\* calculatePath(taskId), called at the given depth of the call stack: the
\* value returned and pathLengths after the call, or the stack overflow
calculatePath(tasks, taskId, lengths, depth) ==
  IF depth > StackLimit THEN [overflow |-> TRUE, lengths |-> lengths, value |-> 0]
  ELSE IF hasLength(lengths, taskId)
  THEN [overflow |-> FALSE, lengths |-> lengths, value |-> getLength(lengths, taskId)]
  ELSE IF ~HasTask(tasks, taskId)
  THEN [overflow |-> FALSE, lengths |-> lengths, value |-> 0]
  ELSE LET deps == depPaths(tasks, taskMap(tasks, taskId).dependencies, 1, lengths,
                            depth, 0)
           pathLength == deps.value + estimatedDuration(taskMap(tasks, taskId))
       IN IF deps.overflow THEN deps
          ELSE [overflow |-> FALSE,
                lengths |-> Append(deps.lengths, [id |-> taskId, length |-> pathLength]),
                value |-> pathLength]

\* for (const dep of task.dependencies) maxDepPath = Math.max(maxDepPath, calculatePath(dep))
depPaths(tasks, deps, i, lengths, depth, maxDepPath) ==
  IF i > Len(deps)
  THEN [overflow |-> FALSE, lengths |-> lengths, value |-> maxDepPath]
  ELSE LET dep == calculatePath(tasks, deps[i], lengths, depth + 1)
       IN IF dep.overflow THEN dep
          ELSE depPaths(tasks, deps, i + 1, dep.lengths, depth,
                        higher(maxDepPath, dep.value))

RECURSIVE allPaths(_, _, _)
\* tasks.forEach(t => calculatePath(t.id))
allPaths(tasks, i, lengths) ==
  IF i > Len(tasks) THEN [overflow |-> FALSE, lengths |-> lengths, value |-> 0]
  ELSE LET one == calculatePath(tasks, tasks[i].id, lengths, 1)
       IN IF one.overflow THEN one ELSE allPaths(tasks, i + 1, one.lengths)

RECURSIVE criticalTask(_, _, _, _)
\* pathLengths.forEach: the first entry of the greatest length above 0 (NoId
\* stands for the empty string)
criticalTask(lengths, k, maxLength, criticalTaskId) ==
  IF k > Len(lengths) THEN criticalTaskId
  ELSE IF lengths[k].length > maxLength
  THEN criticalTask(lengths, k + 1, lengths[k].length, lengths[k].id)
  ELSE criticalTask(lengths, k + 1, maxLength, criticalTaskId)

RECURSIVE tracePath(_, _, _, _)
\* tracePath(taskId): criticalPath.unshift(taskId), then the first dependency
tracePath(tasks, taskId, criticalPath, depth) ==
  IF depth > StackLimit THEN [overflow |-> TRUE, path |-> criticalPath]
  ELSE LET path == <<taskId>> \o criticalPath
       IN IF HasTask(tasks, taskId) /\ Len(taskMap(tasks, taskId).dependencies) > 0
          THEN tracePath(tasks, taskMap(tasks, taskId).dependencies[1], path, depth + 1)
          ELSE [overflow |-> FALSE, path |-> path]

\* findCriticalPath(tasks): the path returned, or the stack overflow
findCriticalPath(tasks) ==
  LET all == allPaths(tasks, 1, <<>>)
      start == criticalTask(all.lengths, 1, 0, NoId)
  IN IF all.overflow THEN [overflow |-> TRUE, path |-> <<>>]
     ELSE IF start = NoId THEN [overflow |-> FALSE, path |-> <<>>]
     ELSE tracePath(tasks, start, <<>>, 1)

\* optimizeTaskOrder(tasks) when no task of the response is parallelizable
\* (the default): getExecutionOrder of all of them
optimizeTaskOrder(tasks) == getExecutionOrder(tasks)

\* validateDependencies drops every dependency that names the task itself
noSelfDependency(tasks) ==
  \A i \in DOMAIN tasks : tasks[i].id \notin Range(tasks[i].dependencies)

NoCriticalPlan == [outcome |-> "none", tasks |-> <<>>, criticalPath |-> <<>>]

CriticalStart == c_plan = NoCriticalPlan

\* analyzeRequest from optimizeTaskOrder on: the plan it returns, or the
\* error its catch throws ('Failed to create task plan: ...')
AnalyzeWithMetadata ==
  /\ p_pc = "idle"
  /\ noSelfDependency(p_tasks)
  /\ LET optimizedTasks == optimizeTaskOrder(p_tasks)
         criticalPath == findCriticalPath(optimizedTasks)
     IN c_plan' = IF criticalPath.overflow
                  THEN [outcome |-> "thrown", tasks |-> <<>>, criticalPath |-> <<>>]
                  ELSE [outcome |-> "returned", tasks |-> optimizedTasks,
                        criticalPath |-> criticalPath.path]
  /\ UNCHANGED <<plannerVars, managerVars, flowVars, asyncVars, snapVars, analyzeVars>>

ToolsStart == AsyncStart /\ SnapshotStart /\ AnalyzeStart /\ CriticalStart

(***************************************************************************)
(* The specifications                                                      *)
(***************************************************************************)
PlannerInit == PlannerStart /\ ManagerStart(1..MaxTasks) /\ FlowStart(NoOptions) /\ ToolsStart

PlannerNext ==
  \/ AnalyzeTask
  \/ OrderCall
  \/ OrderLoop
  \/ OrderDep
  \/ OrderPush
  \/ OrderReturn
  \/ ValidatePlanCall

SpecPlanner == PlannerInit /\ [][PlannerNext]_vars

\* the step-by-step run and the function agree
OrderAgrees == p_pc = "ordered" => o_result = getExecutionOrder(p_tasks)

ManagerInit == ManagerStart(MTaskIds) /\ PlannerStart /\ FlowStart(NoOptions) /\ ToolsStart

\* the statuses handed to updateTaskStatus: all but 'planning', which nothing
\* in the repository assigns to a task and which the TaskManager treats like
\* 'pending' in updateTaskStatus and like 'executing' in getNextPendingTask
UpdateStatuses == Statuses \ {"planning"}

ManagerNext ==
  \/ \E p \in MPlanIds : registerPlan(p)
  \/ \E t \in MTaskIds, s \in UpdateStatuses : updateTaskStatus(t, s)
  \/ \E t \in MTaskIds, r \in {"success", "failure"} : recordResult(t, r)
  \/ \E t \in MTaskIds : skipTask(t)
  \/ \E t \in MTaskIds : skipTaskUnknown(t)

SpecManager == ManagerInit /\ [][ManagerNext]_vars

\* a TaskManager with a listener on 'task:statusChanged', under registerPlan
\* and updateTaskStatus
ListenerInit ==
  ManagerListening(MTaskIds, {"task:statusChanged"}) /\ PlannerStart /\ FlowStart(NoOptions) /\ ToolsStart

ListenerNext ==
  \/ \E p \in MPlanIds : registerPlan(p)
  \/ \E t \in MTaskIds, s \in Statuses : updateTaskStatus(t, s)

SpecListener == ListenerInit /\ [][ListenerNext]_vars

FlowInit ==
  /\ \E o \in CallerOptions : FlowStart(o)
  /\ ManagerStart(FlowTaskIds)
  /\ PlannerStart
  /\ ToolsStart

FlowNext ==
  \/ Execute
  \/ AnalyzeFails
  \/ PlanningAnalyzed
  \/ Approve
  \/ Deny
  \/ ApprovalTimeout
  \/ RunDetailingPhase
  \/ DetailLoop
  \/ DecomposeTask
  \/ DetailTask
  \/ RunExecutionPhase
  \/ ExecutionLoop
  \/ StepLoop
  \/ StepDone
  \/ TaskReturned
  \/ SimulationDone
  \/ RunCompletionPhase
  \/ CompleteFlow
  \/ Pause
  \/ Resume
  \/ WaitForResumeReturned
  \/ Abort

Spec == FlowInit /\ [][FlowNext]_vars

\* the steps the event loop takes by itself: the continuation of a settled
\* await, the reply of the LLM, the end of a child process, a timer that fires.
\* The calls of the control surface (execute, approve, deny, pause, resume,
\* abort) are the caller's and may never come.
FlowProgress ==
  \/ AnalyzeFails
  \/ PlanningAnalyzed
  \/ ApprovalTimeout
  \/ RunDetailingPhase
  \/ DetailLoop
  \/ DecomposeTask
  \/ DetailTask
  \/ RunExecutionPhase
  \/ ExecutionLoop
  \/ StepLoop
  \/ StepDone
  \/ TaskReturned
  \/ SimulationDone
  \/ RunCompletionPhase
  \/ CompleteFlow
  \/ WaitForResumeReturned

SpecLive == Spec /\ WF_vars(FlowProgress)

\* one run of execute() with autoApprove, during which skipTask is called at
\* any moment for any id
SkipInit ==
  /\ FlowStart([NoOptions EXCEPT !.autoApprove = TRUE])
  /\ ManagerStart(FlowTaskIds) /\ PlannerStart /\ ToolsStart

SkipNext ==
  \/ Execute
  \/ AnalyzeFails
  \/ PlanningAnalyzed
  \/ RunDetailingPhase
  \/ DetailLoop
  \/ DecomposeTask
  \/ DetailTask
  \/ RunExecutionPhase
  \/ ExecutionLoop
  \/ StepLoop
  \/ StepDone
  \/ TaskReturned
  \/ RunCompletionPhase
  \/ CompleteFlow
  \/ \E id \in FlowTaskIds : SkipTask(id)

SpecSkip == SkipInit /\ [][SkipNext]_vars

\* one executeTask call on a TaskExecutor of its own
ExecutorInit == FlowStart(NoOptions) /\ ManagerStart(FlowTaskIds) /\ PlannerStart /\ ToolsStart

ExecutorNext ==
  \/ ExecuteTask
  \/ ExecStepLoop
  \/ ApprovalResponse
  \/ StepApprovalTimeout
  \/ CheckSafety
  \/ ChildClose
  \/ FileOperationDone
  \/ RollbackStepDone
  \/ ExecutorAbort

SpecExecutor == ExecutorInit /\ [][ExecutorNext]_vars

\* one executeTask call on the executor of an ExecutionFlow, which nothing
\* but the flow's own handlers can reach
ApprovalInit ==
  /\ \E o \in {NoOptions, [NoOptions EXCEPT !.autoApprove = TRUE]} : FlowStart(o)
  /\ ManagerStart(FlowTaskIds) /\ PlannerStart /\ ToolsStart

ApprovalNext ==
  \/ ExecuteTask
  \/ ExecStepLoop
  \/ StepApprovalTimeout
  \/ CheckSafety
  \/ ChildClose
  \/ FileOperationDone
  \/ RollbackStepDone
  \/ ExecutorAbort

SpecApproval == ApprovalInit /\ [][ApprovalNext]_vars

AsyncInit == ToolsStart /\ PlannerStart /\ ManagerStart(FlowTaskIds) /\ FlowStart(NoOptions)

\* the registry under launch, exit, failure and kill
AsyncNext ==
  \/ ExecuteAsync(MaxProcs)
  \/ ChildClosed
  \/ ChildError
  \/ KillBackgroundProcess
  \/ KillAllBackgroundProcesses

SpecAsync == AsyncInit /\ [][AsyncNext]_vars

\* the same with the children's output and the readiness check
ServerNext ==
  \/ ExecuteAsync(MaxServers)
  \/ ChildData
  \/ ChildClosed
  \/ ChildError
  \/ CheckServerStatus
  \/ KillBackgroundProcess
  \/ KillAllBackgroundProcesses

SpecServer == AsyncInit /\ [][ServerNext]_vars

SnapshotInit == ToolsStart /\ PlannerStart /\ ManagerStart(FlowTaskIds) /\ FlowStart(NoOptions)

SnapshotNext ==
  \/ CreateSnapshots
  \/ SnapshotResource
  \/ FileChanged
  \/ Rollback

SpecSnapshots == SnapshotInit /\ [][SnapshotNext]_vars

AnalyzeInit == ToolsStart /\ PlannerStart /\ ManagerStart(FlowTaskIds) /\ FlowStart(NoOptions)

AnalyzeNext ==
  \/ AnalyzeRequest
  \/ ChatResolved
  \/ ChatRejected

SpecAnalyze == AnalyzeInit /\ [][AnalyzeNext]_vars

\* the planner with plan metadata on every task list within the bounds
CriticalNext ==
  \/ AnalyzeTask
  \/ AnalyzeWithMetadata

SpecCritical == PlannerInit /\ [][CriticalNext]_vars


(***************************************************************************)
(* Dependency graph of a task list, stated without the planner's code:     *)
(* task a depends on b when b is reached from a over one or more           *)
(* dependency entries of tasks of the list.                                *)
(***************************************************************************)
DirectDeps(tasks, id) ==
  UNION { Range(tasks[i].dependencies) : i \in {j \in DOMAIN tasks : tasks[j].id = id} }

RECURSIVE Closure(_, _)
Closure(tasks, S) ==
  LET N == S \cup UNION { DirectDeps(tasks, x) : x \in S }
  IN IF N = S THEN S ELSE Closure(tasks, N)

TransDeps(tasks, id) == Closure(tasks, DirectDeps(tasks, id))

HasDependencyCycle(tasks) ==
  \E i \in DOMAIN tasks : tasks[i].id \in TransDeps(tasks, tasks[i].id)

DepsInList(tasks) ==
  \A i \in DOMAIN tasks : \A d \in Range(tasks[i].dependencies) :
    \E j \in DOMAIN tasks : tasks[j].id = d

UniqueIds(tasks) ==
  \A i, j \in DOMAIN tasks : tasks[i].id = tasks[j].id => i = j

Pos(seq, id) == CHOOSE i \in DOMAIN seq : seq[i].id = id

Ids(seq) == [i \in DOMAIN seq |-> seq[i].id]

\* every task of out comes after all of its dependencies
Topological(out) ==
  \A i \in DOMAIN out : \A d \in Range(out[i].dependencies) :
    \E j \in DOMAIN out : j < i /\ out[j].id = d

Independent(tasks, a, b) ==
  a \notin TransDeps(tasks, b) /\ b \notin TransDeps(tasks, a)

WellFormed(tasks) ==
  UniqueIds(tasks) /\ DepsInList(tasks) /\ ~HasDependencyCycle(tasks)

\* C2 as stated: on a well-formed list the order returned is topological and
\* any two tasks neither of which depends on the other keep their array order.
C2_OrderKeepsIndependentTasks ==
  (p_pc = "ordered" /\ WellFormed(p_tasks)) =>
     /\ Topological(o_result)
     /\ \A i, j \in DOMAIN p_tasks :
          (i < j /\ Independent(p_tasks, p_tasks[i].id, p_tasks[j].id))
            => Pos(o_result, p_tasks[i].id) < Pos(o_result, p_tasks[j].id)

\* C2 amended: on a well-formed list the order returned is topological, and a
\* task stands ahead of a task that precedes it in the array only if it is a
\* (transitive) dependency of that task or of a task before that one.
C2_OrderTopological ==
  (p_pc = "ordered" /\ WellFormed(p_tasks)) =>
     /\ Topological(o_result)
     /\ \A i, j \in DOMAIN p_tasks :
          (i < j /\ Pos(o_result, p_tasks[j].id) < Pos(o_result, p_tasks[i].id))
            => \E k \in 1..i : p_tasks[j].id \in TransDeps(p_tasks, p_tasks[k].id)

\* the example of the spec: [B depending on A, A] yields [A, B]
C2_Witness ==
  /\ p_pc = "ordered"
  /\ p_tasks = <<Task(1, <<2>>), Task(2, <<>>)>>
  /\ Ids(o_result) = <<2, 1>>

\* C3: validatePlan reports 'Plan contains circular dependencies', and so
\* valid = false, exactly for the plans whose dependency entries form a cycle
\* (a task depending on itself included).
C3_CircularIffCycle ==
  p_pc = "validated" =>
     /\ (ErrCircular \in v_result.errors) <=> HasDependencyCycle(v_plan)
     /\ HasDependencyCycle(v_plan) => ~v_result.valid

C3_Witness ==
  /\ p_pc = "validated"
  /\ \E i \in DOMAIN v_plan : v_plan[i].id \in Range(v_plan[i].dependencies)
  /\ ErrCircular \in v_result.errors
  /\ ~v_result.valid

\* C4: getExecutionOrder terminates on every task list (cyclic ones and ones
\* naming unknown ids included): the number of visit calls, the depth of the
\* recursion and the length of the result are bounded by the size of the
\* input, a run that has not returned can take a step, and the list returned
\* holds every input task exactly once.
C4_OrderTerminatesEachTaskOnce ==
  /\ o_calls <= Len(p_tasks) + TotalEdges(p_tasks)
  /\ Len(o_stack) <= Len(p_tasks)
  /\ Len(o_result) <= Len(p_tasks)
  /\ p_pc = "ordering" => ENABLED (OrderLoop \/ OrderDep \/ OrderPush \/ OrderReturn)
  /\ p_pc = "ordered" =>
       /\ Len(o_result) = Len(p_tasks)
       /\ \A i \in DOMAIN p_tasks :
            Cardinality({j \in DOMAIN o_result : o_result[j] = p_tasks[i]}) = 1

C4_Witness ==
  /\ p_pc = "ordered"
  /\ Len(p_tasks) = MaxTasks
  /\ HasDependencyCycle(p_tasks)
  /\ ~DepsInList(p_tasks)

\* C5: validatePlan rejects every plan in which a task names a dependency id
\* that is not the id of a task of the plan (with the error naming the task
\* and the id), so a plan it accepts has all its dependency ids in the plan.
C5_DanglingDependencyRejected ==
  p_pc = "validated" =>
     /\ \A i \in DOMAIN v_plan : \A d \in Range(v_plan[i].dependencies) :
          (\A j \in DOMAIN v_plan : v_plan[j].id # d)
            => /\ ~v_result.valid
               /\ ErrInvalidDep(v_plan[i].id, d) \in v_result.errors
     /\ v_result.valid => DepsInList(v_plan)

C5_Witness ==
  /\ p_pc = "validated"
  /\ ~DepsInList(v_plan)
  /\ ~HasDependencyCycle(v_plan)
  /\ \A i \in DOMAIN v_plan : v_plan[i].named
  /\ ~v_result.valid

\* C1: after any sequence of TaskManager operations at most one registered
\* task has status 'executing'.
C1_AtMostOneExecuting ==
  Cardinality({t \in m_tasks : m_status[t] = "executing"}) <= 1

\* a task may be handed out when it is pending and every dependency of it is
\* a registered task with status completed or skipped
Eligible(t) ==
  /\ m_status[t] = "pending"
  /\ \A i \in DOMAIN m_deps[t] :
       m_deps[t][i] \in m_tasks /\ m_status[m_deps[t][i]] \in {"completed", "skipped"}

\* C6: in every state the TaskManager can reach, getNextPendingTask(planId)
\* returns null when no task of the plan may be handed out, and otherwise the
\* first task in plan order that may; it never returns a task with a
\* dependency that is not completed or skipped.
C6_NextPendingIsFirstEligible ==
  \A p \in MPlanIds :
    LET r == getNextPendingTask(p)
        T == IF p \in m_plans THEN PlanTasks(p) ELSE <<>>
    IN IF \E k \in DOMAIN T : Eligible(T[k])
       THEN \E k \in DOMAIN T :
              /\ r = T[k]
              /\ Eligible(T[k])
              /\ \A j \in 1..(k - 1) : ~Eligible(T[j])
       ELSE r = NoId

\* the first task of the plan waits for the second one, which is handed out
C6_Witness ==
  \E p \in m_plans :
    /\ Len(PlanTasks(p)) >= 2
    /\ m_status[PlanTasks(p)[1]] = "pending"
    /\ m_deps[PlanTasks(p)[1]] # <<>>
    /\ getNextPendingTask(p) = PlanTasks(p)[2]

(***************************************************************************)
(* ExecutionFlow claims (Spec)                                             *)
(***************************************************************************)
AllBefore(ph, i, status) == \A j \in 1..(i - 1) : ph[PhaseNames[j]] = status
AllAfter(ph, i, status) ==
  \A j \in (i + 1)..Len(PhaseNames) : ph[PhaseNames[j]] = status

\* C7: in a run of execute the phases start in the order planning, detailing,
\* execution, completion: a phase turns in_progress only from pending, when
\* every earlier phase is completed and every later one still pending; at most
\* one phase is in_progress at any time; a phase that is completed or failed
\* keeps that status.
C7_PhasesInOrder ==
  [][ /\ Cardinality({p \in PhaseSet : f_phase'[p] = "in_progress"}) <= 1
      /\ \A i \in DOMAIN PhaseNames :
           /\ (f_phase[PhaseNames[i]] # "in_progress"
                 /\ f_phase'[PhaseNames[i]] = "in_progress")
              => /\ f_phase[PhaseNames[i]] = "pending"
                 /\ AllBefore(f_phase, i, "completed")
                 /\ AllBefore(f_phase', i, "completed")
                 /\ AllAfter(f_phase', i, "pending")
           /\ f_phase[PhaseNames[i]] \in {"completed", "failed"}
              => f_phase'[PhaseNames[i]] = f_phase[PhaseNames[i]]
    ]_vars

\* the completion phase has started after three completed phases that ran a task
C7_Witness ==
  /\ f_phase["completion"] = "in_progress"
  /\ AllBefore(f_phase, 4, "completed")
  /\ f_results # <<>>

\* C8: without autoApprove the planning phase leaves the approval wait only by
\* Approve, Deny or the timer; it completes only by an Approve that arrives
\* during the wait; Deny or the timer during the wait fail the phase and reject
\* execute; the timer runs for 5 minutes unless the caller set a timeout; and
\* as long as the flow is not approved no task is detailed, registered or
\* executed.
C8_ApprovalGate ==
  /\ [](~f_approved =>
          /\ f_detailing = <<>> /\ f_detailed = <<>> /\ m_tasks = {}
          /\ x_invocations = {} /\ f_results = <<>>
          /\ AllAfter(f_phase, 1, "pending"))
  /\ []((f_pc = "approval" /\ f_caller.timeout = Unset) => f_timer = 5 * 60 * 1000)
  /\ [][ ~f_opts.autoApprove =>
           /\ (f_pc = "approval" /\ f_pc' # "approval")
              => (Approve \/ Deny \/ ApprovalTimeout)
           /\ (f_phase["planning"] # "completed" /\ f_phase'["planning"] = "completed")
              => (f_pc = "approval" /\ Approve)
           /\ (f_pc = "approval" /\ (Deny \/ ApprovalTimeout))
              => (f_phase'["planning"] = "failed" /\ f_outcome' = "rejected")
       ]_vars

\* a flow approved by hand, after a wait with the default timer, is detailing
\* its tasks
C8_Witness ==
  /\ ~f_opts.autoApprove /\ f_caller.timeout = Unset
  /\ f_approved
  /\ f_phase["planning"] = "completed"
  /\ f_phase["detailing"] = "in_progress"
  /\ f_detailing # <<>>

PlanInvalid(tasks) ==
  \/ Len(tasks) = 0
  \/ \E i \in DOMAIN tasks : ~tasks[i].named
  \/ ~DepsInList(tasks)
  \/ HasDependencyCycle(tasks)

\* C9: once analyzeRequest has returned a plan that has no tasks, a task
\* without name or description, a dangling dependency or a dependency cycle,
\* the planning phase is failed, execute has rejected, the other three phases
\* are pending and no task is registered, executed or has a result.
C9_InvalidPlanFailsPlanning ==
  (f_pc \notin {"idle", "analyzing"} /\ PlanInvalid(f_analyzed)) =>
     /\ f_phase["planning"] = "failed"
     /\ f_outcome = "rejected"
     /\ AllAfter(f_phase, 1, "pending")
     /\ f_plan = <<>> /\ f_detailed = <<>> /\ m_tasks = {}
     /\ x_invocations = {} /\ f_results = <<>>
     /\ \A t \in FlowTaskIds : m_status[t] # "executing"

\* execute has rejected a plan of two named tasks, one with a dangling dependency
C9_Witness ==
  /\ f_outcome = "rejected"
  /\ Len(f_analyzed) = 2
  /\ \A i \in DOMAIN f_analyzed : f_analyzed[i].named
  /\ ~DepsInList(f_analyzed)
  /\ ~HasDependencyCycle(f_analyzed)

\* C10: at most one executeTask call is in progress and at most one task has
\* status executing; executeTask is invoked only during the execution phase,
\* when no earlier call is in progress and every earlier task of the execution
\* order has returned its result to the loop.
C10_OneTaskAtATime ==
  /\ [](/\ Cardinality(x_invocations) <= 1
        /\ Cardinality({t \in FlowTaskIds : m_status[t] = "executing"}) <= 1)
  /\ [][ (x_invocations' # x_invocations /\ x_invocations' # {}) =>
           /\ x_invocations = {}
           /\ f_phase["execution"] = "in_progress"
           /\ Len(f_results) = f_i' - 1
           /\ \A j \in 1..(f_i' - 1) :
                f_results[j].taskId = f_order[j] /\ f_results[j].status # "none"
       ]_vars

\* the second of two tasks that do not depend on each other is being executed,
\* after the first has returned
C10_Witness ==
  /\ Len(f_order) = 2 /\ f_i = 2
  /\ x_invocations = {f_order[2]}
  /\ m_status[f_order[2]] = "executing"
  /\ Len(f_results) = 1
  /\ Independent(f_plan, 1, 2)

\* C11: a task is reported failed for a step error that is not a safety
\* violation only when the attempts are exhausted, that is, after executeTask
\* has been called maxRetries times for it.
C11_StepFailureRetried ==
  \A j \in DOMAIN f_results :
    (f_results[j].status = "failure" /\ f_results[j].error = "step")
      => x_calls[f_results[j].taskId] = f_opts.maxRetries

\* C12: when abort() is called while the task is between two steps, waiting
\* for a step approval or running a shell command, the result of the task is a
\* failure whose error says "aborted".
C12_AbortFailsTask ==
  (x_result # "none" /\ e_obs.abortAt \in {"between", "approval", "shell"})
    => (x_result = "failure" /\ x_error = "aborted")

\* C13: an abort never runs the rollback steps of the task: when the step
\* failed because abort() killed its shell command, no rollback command is
\* started, whatever rollbackStrategy.automatic says.
C13_AbortRunsNoRollback ==
  x_error = "killed" => (x_pc # "rollback" /\ e_rolled = <<>>)

\* the current step threw: it failed while it ran, or the safety check
\* rejected it
StepThrew == e_step.fate \in {"failed", "rejected"}

\* C14: when a step throws and rollbackStrategy.automatic is set, every
\* rollback step is attempted, whatever became of the earlier ones, and the
\* result of the task is a failure that carries the error of the step, never
\* one of a rollback step; when automatic is not set no rollback step runs.
C14_RollbackBestEffort ==
  /\ ~e_task.rollback.automatic => (x_pc # "rollback" /\ e_rolled = <<>>)
  /\ (x_result # "none" /\ StepThrew) =>
       /\ x_result = "failure"
       /\ e_step.fate = "rejected" => x_error = "safety"
       /\ e_step.fate = "failed" => x_error \in {"step", "killed"}
       /\ rollsBack(e_task) => Len(e_rolled) = e_task.rollback.steps

\* a step failed, the first rollback step failed too, the second one was
\* still attempted and the task failed with the error of the step
C14_Witness ==
  /\ x_result = "failure" /\ x_error = "step"
  /\ e_step.fate = "failed"
  /\ e_task.rollback.automatic
  /\ Len(e_rolled) = 2 /\ e_rolled[1] = "failed"

\* C15: a step that requires approval waits with a timer of 30 seconds; when
\* the answer is a denial or the timer fires, the step is not executed: the
\* skip is logged and the loop goes on with the next step; a task fails only
\* when a step threw (or the task was aborted), so a task whose other steps do
\* not fail still reports success.
C15_DeniedStepSkipped ==
  /\ x_pc = "approval" =>
       (e_step.requiresApproval /\ e_step.approved = "waiting" /\ e_wait = 30 * 1000)
  /\ e_step.approved = "no" =>
       (e_step.fate = "skipped" /\ e_obs.skips > 0 /\ x_pc \in {"loop", "idle"})
  /\ x_result = "failure" => (StepThrew \/ x_error = "aborted")
  /\ (x_result # "none" /\ e_step.approved = "no" /\ e_obs.abortAt = "none")
       => x_result = "success"

\* the first step was skipped for lack of approval, the second one ran, and
\* the task reports success
C15_Witness ==
  /\ e_obs.skips = 1
  /\ e_step.fate = "completed"
  /\ x_result = "success"

\* the command of the current step has been handed to spawn, to fs or to
\* executeInternalCommand
StepReachedExecution == e_step.fate \in {"executing", "completed", "failed"}

\* C16: a step whose command is 'rm -rf /' never reaches command execution:
\* whatever risk the classification returned and whatever safetyLevel the step
\* declares, the safety check rejects it.
C16_RmRfRootRejected ==
  e_step.command = RmRfRoot =>
    /\ ~StepReachedExecution
    /\ x_pc \notin {"shell", "file"}
    /\ e_step.risk # "none" => e_step.fate = "rejected"

\* 'rm -rf /' was classified safe on a step that declares the level danger,
\* and the safety check rejected it
C16_Witness ==
  /\ e_step.command = RmRfRoot
  /\ e_step.risk = "safe" /\ e_step.safetyLevel = "danger"
  /\ e_step.fate = "rejected"
  /\ x_error = "safety"

\* the order safe < caution < danger < forbidden
SafetyRank(level) ==
  CASE level = "safe" -> 0
    [] level = "caution" -> 1
    [] level = "danger" -> 2
    [] level = "forbidden" -> 3

\* C17: a step whose classified risk is forbidden, or stricter than the
\* safetyLevel it declares, is rejected by the safety check.
C17_StricterRiskRejected ==
  (/\ e_step.risk # "none"
   /\ \/ e_step.risk = "forbidden"
      \/ SafetyRank(e_step.risk) > SafetyRank(e_step.safetyLevel))
    => e_step.fate = "rejected"

\* C18: the result first stored for a task is never replaced: no recordResult
\* or skipTask call changes a result that the TaskManager already holds.
C18_FirstResultKept ==
  [][\A t \in DOMAIN m_results :
       m_results[t] # "none" => m_results'[t] = m_results[t]]_vars

\* C19: a call that stores a skip result (status success, output.skipped =
\* true) for a task is made on a registered task and leaves that task with
\* the status skipped, not completed; it changes no other status, no other
\* result and not the active task.  On an unknown id no skip result is stored.
C19_SkipTask ==
  [][\A t \in DOMAIN m_results :
       (m_results'[t] = "skipped" /\ m_results[t] # "skipped") =>
         /\ t \in m_tasks
         /\ m_status'[t] = "skipped"
         /\ \A u \in DOMAIN m_results \ {t} :
              m_status'[u] = m_status[u] /\ m_results'[u] = m_results[u]
         /\ UNCHANGED <<m_plans, m_tasks, m_deps, m_active>>]_vars

\* a registered task has been skipped: its status is skipped, its stored
\* result is the skip result
C19_Witness ==
  \E t \in m_tasks :
    /\ m_status[t] = "skipped"
    /\ m_results[t] = "skipped"

\* the payloads the listener on 'task:statusChanged' received during the last
\* call
StatusEvents == m_heard["task:statusChanged"]

\* C20 as stated: every updateTaskStatus call on a registered task with a
\* terminal status leaves getActiveTask() returning null.
C20_TerminalClearsActive ==
  [][StatusEvents' # <<>> =>
       (StatusEvents'[1].newStatus \in TerminalStatuses => getActiveTask' = NoId)]_vars

\* C20, amended: updateTaskStatus(id, s) on a registered task emits one
\* task:statusChanged event with the status the task had and the status s,
\* which the task has from then on; with s = executing getActiveTask() returns
\* the task; with a terminal s the active task is cleared when it is this task
\* and is left as it was when it is another one; other statuses leave it as it
\* was.  A call on an unknown id emits nothing and changes nothing.
C20_UpdateTaskStatus ==
  [][/\ (StatusEvents' = <<>> /\ m_plans' = m_plans) =>
          UNCHANGED <<m_tasks, m_deps, m_status, m_results, m_active>>
     /\ StatusEvents' # <<>> =>
          LET e == StatusEvents'[1] IN
          /\ Len(StatusEvents') = 1
          /\ e.taskId \in m_tasks
          /\ e.previousStatus = m_status[e.taskId]
          /\ e.newStatus = m_status'[e.taskId]
          /\ \A u \in DOMAIN m_status \ {e.taskId} : m_status'[u] = m_status[u]
          /\ e.newStatus = "executing" => getActiveTask' = e.taskId
          /\ (e.newStatus \in TerminalStatuses /\ m_active = e.taskId) =>
               getActiveTask' = NoId
          /\ (e.newStatus # "executing" /\ m_active # e.taskId) =>
               m_active' = m_active
          /\ (e.newStatus \notin TerminalStatuses \cup {"executing"}) =>
               m_active' = m_active]_vars

\* the active task went from executing to completed: the listener received
\* that one event and no task is active
C20_Witness ==
  /\ Len(StatusEvents) = 1
  /\ StatusEvents[1].previousStatus = "executing"
  /\ StatusEvents[1].newStatus = "completed"
  /\ m_status[StatusEvents[1].taskId] = "completed"
  /\ getActiveTask = NoId

\* task t is registered and pending, and one of its dependencies is a
\* registered task whose status is failed
WaitsOnFailed(t) ==
  /\ t \in m_tasks
  /\ m_status[t] = "pending"
  /\ \E i \in DOMAIN m_deps[t] :
       m_deps[t][i] \in m_tasks /\ m_status[m_deps[t][i]] = "failed"

\* C21: a call that turns a dependency of a pending task into failed leaves
\* the dependent task pending, and getNextPendingTask never returns a pending
\* task that has a failed dependency.
C21_FailedDependencyStarves ==
  [][/\ \A t \in m_tasks :
          (/\ m_status[t] = "pending"
           /\ \E i \in DOMAIN m_deps[t] :
                /\ m_deps[t][i] \in m_tasks
                /\ m_status[m_deps[t][i]] # "failed"
                /\ m_status'[m_deps[t][i]] = "failed")
            => m_status'[t] = "pending"
     /\ \A t \in m_tasks' :
          WaitsOnFailed(t)' => \A p \in MPlanIds : getNextPendingTask(p)' # t
    ]_vars

\* the first task of a plan is pending and waits on the second one, which has
\* failed: getNextPendingTask has no task to hand out
C21_Witness ==
  \E p \in m_plans :
    /\ Len(PlanTasks(p)) >= 2
    /\ WaitsOnFailed(PlanTasks(p)[1])
    /\ m_results[PlanTasks(p)[2]] = "failure"
    /\ getNextPendingTask(p) = NoId

\* the step starts a task: executeTask, or simulateExecution in a dry run
TaskStarts ==
  \/ \E t \in DOMAIN x_calls : x_calls'[t] > x_calls[t]
  \/ f_pc # "simulating" /\ f_pc' = "simulating"

\* C22: no task is started while the flow is paused: the execution loop
\* starts the next task only in a state where state.paused is false.
C22_NoTaskStartedWhilePaused == [][TaskStarts => ~f_paused]_vars

\* createDetailedTask has returned for the task of the current iteration and
\* its DetailedTask is the last one pushed
JustDetailed == f_made.reply # "none" /\ f_detailing # <<>>

\* the DetailedTask just pushed has no steps, no resources and no risks
MadeEmpty ==
  /\ f_detailing[Len(f_detailing)].steps = 0
  /\ f_made.resources = 0
  /\ f_made.risks = 0

\* C23 as stated: a failure of decomposeTask for a task, like a failure of the
\* step generation, yields a DetailedTask with empty steps, resources and risks.
C23_DecomposeFailureGivesEmptyTask ==
  (JustDetailed /\ (f_made.subtasks = "failed" \/ f_made.reply \in {"error", "bare"}))
    => MadeEmpty

\* C23, amended: the detailing phase fails only when the flow is aborted; when
\* it has completed, the detailed tasks are those of the plan, in plan order,
\* one per task and with its id, and each is registered with the TaskManager;
\* a failure of the step generation yields a DetailedTask with empty steps,
\* resources and risks, while a failure of decomposeTask changes nothing in
\* the DetailedTask.
C23_DetailingCompletes ==
  /\ f_phase["detailing"] = "failed" => f_aborted
  /\ f_phase["detailing"] = "completed" =>
       /\ Len(f_detailed) = Len(f_plan)
       /\ \A j \in DOMAIN f_plan :
            /\ f_detailed[j].id = f_plan[j].id
            /\ Cardinality({k \in DOMAIN f_detailed : f_detailed[k].id = f_plan[j].id}) = 1
            /\ f_plan[j].id \in m_tasks
  /\ (JustDetailed /\ f_made.reply \in {"error", "bare"}) => MadeEmpty
  /\ (JustDetailed /\ f_made.reply = "full") => ~MadeEmpty

\* the phase completed on a plan of two tasks, all registered
C23_Witness ==
  /\ f_phase["detailing"] = "completed"
  /\ Len(f_plan) = 2
  /\ Len(f_detailed) = 2
  /\ \A j \in DOMAIN f_plan : f_plan[j].id \in m_tasks

(***************************************************************************)
(* AsyncCommandExecutor                                                    *)
(***************************************************************************)

\* the step is a call killBackgroundProcess(processId)
KillCalled(processId) ==
  b_last'.op = "killBackgroundProcess" /\ b_last'.id = processId

\* C24: killBackgroundProcess on a process whose status is 'running' marks it
\* 'killed' and returns true; a process marked 'killed' keeps that status
\* whichever of the child's close and error callbacks arrive afterwards; on an
\* unknown id or a process that is not running the call returns false and
\* changes nothing.
C24_KilledStaysKilled ==
  [][ /\ \A processId \in 1..(b_counter + 1) :
           KillCalled(processId) =>
             IF canKill(processId)
             THEN b_last'.ret = TRUE /\ b_procs'[processId].status = "killed"
             ELSE b_last'.ret = FALSE /\ UNCHANGED <<b_counter, b_procs, b_timers, b_ready>>
      /\ \A id \in DOMAIN b_procs :
           b_procs[id].status = "killed" => b_procs'[id].status = "killed" ]_vars

\* C25: a launched background process stays in the registry in every later
\* state, whatever exits, fails or is killed; its status changes only in the
\* child's close and error callbacks and in a kill of a running process; and a
\* new process gets an id above every id handed out before.
C25_RegistryOnlyGrows ==
  [][ /\ \A id \in DOMAIN b_procs :
           /\ id \in DOMAIN b_procs'
           /\ b_procs'[id].command = b_procs[id].command
           /\ b_procs'[id].status # b_procs[id].status =>
                \/ b_procs'[id].child # b_procs[id].child
                \/ b_procs[id].status = "running" /\ b_procs'[id].status = "killed"
      /\ \A id \in DOMAIN b_procs' \ DOMAIN b_procs :
           id = b_counter' /\ id > b_counter
      /\ b_counter' >= b_counter ]_vars

C25_Witness ==
  /\ Len(b_procs) >= 2
  /\ b_procs[1].child = "closed"
  /\ b_procs[2].status = "killed"

\* the child of process id has written the line
\* 'Listening on http://localhost:3001'
WroteListening(id) ==
  \E k \in DOMAIN b_procs[id].wrote : b_procs[id].wrote[k] = ListeningLine

\* C26: when the child of a server command has written 'Listening on
\* http://localhost:3001' before the readiness check runs, 2 seconds after the
\* launch, the check emits 'server:ready' with port 3001 for that process.
C26_ServerReadyEmitted ==
  [][ \A id \in b_timers \ b_timers' :
        WroteListening(id) =>
          [id |-> id, port |-> <<"3", "0", "0", "1">>] \in b_ready' ]_vars

(***************************************************************************)
(* CommandExecutor                                                         *)
(***************************************************************************)

\* the step is a call rollback(snapshotId)
RollbackCalled(snapshotId) == s_last'.outcome # "none" /\ s_last'.id = snapshotId

\* C28: for every snapshot that was taken, rollback with its id writes the
\* content it captured back to its path, whatever was written to the path or
\* snapshotted since, a later snapshot of the same path included; and a
\* snapshot of a path that does not exist stores nothing and raises no error.
C28_RollbackRestoresSnapshot ==
  [][ /\ \A snapshotId \in DOMAIN s_taken :
           RollbackCalled(snapshotId) =>
             /\ s_last'.outcome = "completed"
             /\ s_files'[s_taken[snapshotId].file] = s_taken[snapshotId].content
      /\ (s_pending # <<>> /\ s_pending' = Tail(s_pending)
            /\ s_files[Head(s_pending)] = Absent) =>
           UNCHANGED <<s_snaps, s_taken>> ]_vars

\* the command of the current step is running, and the step was classified
\* 'danger' or its intent category is 'write' or 'delete'
RiskyStepRuns ==
  /\ x_pc \in {"shell", "file"}
  /\ e_step.risk = "danger" \/ e_step.category \in {"write", "delete"}

\* C27: while TaskExecutor runs a step classified 'danger', or of category
\* 'write' or 'delete', a snapshot is stored for every target path that
\* exists, holding the content the path had before the step.
C27_SnapshotBeforeRiskyStep ==
  RiskyStepRuns =>
    \A k \in DOMAIN e_step.targets :
      s_files[e_step.targets[k]] # Absent =>
        s_snaps[e_step.targets[k]].content = s_files[e_step.targets[k]]

(***************************************************************************)
(* TaskPlanner.analyzeRequest                                              *)
(***************************************************************************)

\* analyzeRequest has returned or thrown, and the response it received could
\* not be parsed as JSON
ParseFailed ==
  /\ a_pc = "idle"
  /\ a_response # <<>>
  /\ JSONParse(extracted(a_response)) = SyntaxError

HasOpenTask(p) ==
  \E k \in DOMAIN getPlanTasks(p) :
    m_status[getPlanTasks(p)[k]] \in {"executing", "pending", "planning"}

\* C30: getActivePlans returns a registered plan if it has a task that is
\* executing, pending or planning, and does not return a plan whose every
\* task is completed, failed or skipped.
C30_ActivePlansHaveOpenTasks ==
  \A p \in m_plans : p \in getActivePlans <=> HasOpenTask(p)

(***************************************************************************)
(* Step approval under autoApprove                                         *)
(***************************************************************************)

\* C31: with autoApprove set, a step that requires approval is never denied
\* and never skipped for lack of approval: the response of the flow's handler
\* reaches the request that caused it.
C31_AutoApprovedStepRuns ==
  (f_opts.autoApprove /\ e_step.requiresApproval) =>
    (e_step.approved # "no" /\ e_step.fate # "skipped")

(***************************************************************************)
(* ExecutionFlow.skipTask                                                  *)
(***************************************************************************)

\* C32: once skipTask has set a task of the plan to 'skipped', no later step
\* of the flow passes that task to TaskExecutor.executeTask, and the task
\* keeps the status 'skipped'.
C32_SkippedTaskNotExecuted ==
  [][\A j \in DOMAIN f_status :
       f_status[j] = "skipped" =>
         /\ x_calls'[f_plan[j].id] = x_calls[f_plan[j].id]
         /\ f_status'[j] = "skipped"
    ]_vars

(***************************************************************************)
(* Abort                                                                   *)
(***************************************************************************)

\* C33: whenever abort() has been called while execute() is running, execute()
\* eventually rejects, whatever the flow was waiting for at that moment.
C33_AbortRejects ==
  (f_aborted /\ f_outcome = "pending") ~> (f_outcome = "rejected")

\* abort() has been called during the execution phase: the phase is running,
\* and its loop passed the abort check at the head of an iteration before the
\* flag was set
AbortedInExecution ==
  /\ f_aborted
  /\ f_phase["execution"] = "in_progress"
  /\ f_i > 1 \/ f_pc \in {"in_task", "simulating", "paused", "resumed"}

\* C34: once abort() has been called during the execution phase, no step gives
\* the phase the status completed (so that the completion phase, which starts
\* only after it, never starts).
C34_AbortedExecutionNeverCompletes ==
  [][AbortedInExecution =>
       (f_phase'["execution"] # "completed" /\ f_phase'["completion"] = "pending")
    ]_vars

(***************************************************************************)
(* The approved flag                                                       *)
(***************************************************************************)

\* C35: state.approved is true only in a flow whose planning phase has the
\* status completed.
C35_ApprovedOnlyAfterPlanning ==
  f_approved => f_phase["planning"] = "completed"

(***************************************************************************)
(* TaskManager.getActiveTask                                               *)
(***************************************************************************)

\* C36: whenever getActiveTask() returns a task, the status of that task is
\* 'executing'.
C36_ActiveTaskIsExecuting ==
  getActiveTask # NoId => m_status[getActiveTask] = "executing"

(***************************************************************************)
(* TaskExecutor.executeTask always returns a result                        *)
(***************************************************************************)

\* the step in which executeTask returns or throws
ExecuteTaskEnds == x_pc # "idle" /\ x_pc' = "idle"

\* C37: executeTask ends only by resolving with a result of status success or
\* failure; recordResult is called for the task in that step, and in no
\* other step of the invocation; currentTaskId and abortController are null
\* afterwards.
C37_ExecuteTaskNeverRejects ==
  [][/\ ExecuteTaskEnds =>
          /\ x_result' \in {"success", "failure"}
          /\ m_results[ExecTaskId] = "none"
          /\ m_results'[ExecTaskId] = x_result'
          /\ x_current' = NoId
          /\ x_signal' = "null"
          /\ x_invocations' = {}
     /\ m_results' # m_results => ExecuteTaskEnds
    ]_vars

\* executeTask has returned a failure for an abort that came after a step was
\* skipped for lack of approval
C37_Witness ==
  /\ x_pc = "idle"
  /\ x_calls[ExecTaskId] = 1
  /\ x_result = "failure"
  /\ x_error = "aborted"
  /\ e_obs.skips >= 1
  /\ m_results[ExecTaskId] = "failure"

(***************************************************************************)
(* The results of the execution phase                                      *)
(***************************************************************************)

\* C38: when the execution phase has the status completed, state.results
\* holds one result for every task of the plan, in execution order.
C38_OneResultPerTask ==
  f_phase["execution"] = "completed" =>
    /\ Len(f_results) = Len(f_plan)
    /\ Len(f_order) = Len(f_plan)
    /\ \A k \in DOMAIN f_results : f_results[k].taskId = f_order[k]

(***************************************************************************)
(* findCriticalPath                                                        *)
(***************************************************************************)

\* C39: analyzeRequest of the planner with plan metadata returns a plan for
\* every task list, cyclic ones included (findCriticalPath ends without an
\* error), and validatePlan rejects the plan returned for a cyclic list with
\* the circular-dependencies error.
C39_CriticalPathTerminates ==
  c_plan.outcome # "none" =>
    /\ c_plan.outcome = "returned"
    /\ detectCycles(c_plan.tasks) => ErrCircular \in validatePlan(c_plan.tasks).errors

====
